---- MODULE Spec2Model ----
(***************************************************************************)
(* Model of the LMS scanner service (ScannerService.cpp): the control      *)
(* operations start/stop/abortScan/requestImmediateScan/requestReload/     *)
(* requestStop, each of which any client thread may call, statement by     *)
(* statement; the io service with its single worker thread, the schedule   *)
(* timer, and the scan thread statement by statement with the status mutex *)
(* and the wall clock the next scan is computed from (Spec, LiveSpec); the *)
(* same with getStatus() called from other threads (ScanSpec,              *)
(* ScanLiveSpec); the next date-time of scheduleNextScan (DateSpec); the   *)
(* refresh of the scan settings over the nine fields that readSettings()   *)
(* fills (RefreshSpec); the transactions of the database sessions         *)
(* (TxSpec); the orphan queries (OrphanSpec); scans in a row over the      *)
(* files of a library (IdemSpec); the stream parameters of the subsonic    *)
(* API (StreamSpec); the thread-local sessions of Db (TlsSpec); the play   *)
(* queue of the user interface (QueueSpec).                                *)
(***************************************************************************)
EXTENDS Integers, Sequences, FiniteSets, TLC

\* ---------------------------------------------------------------- bounds
MaxElapsed == 5      \* half seconds since the last scanInProgress told apart (more counts as this)
MaxDay == 62         \* current dates tried: so many days after 1 January 2024
MaxNested == 2       \* transactions a session holds at a time, one inside the other
MaxArtists == 2      \* artist ids in the catalog
MaxPaths == 2        \* media files under the library root
MaxVersion == 1      \* times the scan settings are changed
MaxWrites == 1       \* times a media file or the stored settings are written
MaxIdemCalls == 1    \* control operations called while the files are scanned
MaxTicks == 1        \* times the wall clock is seen to go on by a tick
MaxIdemPeriods == 2  \* update periods the store holds while the files are scanned
ClockTick == 1800    \* seconds of wall time in a tick
MaxStoredFields == 1 \* fields in which the stored settings vary where two client threads call
MaxLiveStoredFields == 2 \* the same where one client thread calls
MaxIdemFields == 3   \* the same while the files are scanned
MaxChangedFields == 2 \* fields in which the settings read differ from the cached ones
MaxThreads == 3      \* threads that ask a Db for their session
MaxEntries == 4      \* playlist entries of the play queue
MaxAdded == 2        \* tracks handed to addTracks or playTracks at once
MaxCallers == 2      \* client threads that call the control operations
MaxLiveCallers == 1  \* the same where getStatus() is called too or progress is assumed
MaxCalls == 2        \* control operations called after the constructor
MaxLiveCalls == 1    \* the same where getStatus() is called too or progress is assumed
MaxReaders == 2      \* threads that call getStatus()
MaxLiveReaders == 1  \* the same where getStatus() is to make progress
MaxMtime == 2        \* last-write times a media file can have

\* ------------------------------------------------------- program constants
\* (a service running two threads)
ThreadCountTwo == 1 + 1
ThreadCount == 1     \* _ioService.setThreadCount(1)

\* the client threads that call the control operations
CallerNames == << "ui", "main", "ui2", "ui3" >>
Callers == {CallerNames[i] : i \in 1..MaxCallers}
LiveCallers == {CallerNames[i] : i \in 1..MaxLiveCallers}
ThreadIds == 1..ThreadCount
NoOwner == "nobody"

PeriodNames == << "Never", "Weekly", "Daily", "Hourly", "Monthly" >>
UpdatePeriods == {PeriodNames[i] : i \in 1..Len(PeriodNames)}

\* (the steps pushed with orphan removal ahead of the file scan)
BuildScanStepsSwapped ==
    << "DiscoverFiles", "RemoveOrphanDbFiles", "ScanFiles",
       "ComputeClusterStats", "CheckDuplicatedDbFiles" >>

\* the steps refreshScanSettings pushes, in order
BuildScanSteps ==
    << "DiscoverFiles", "ScanFiles", "RemoveOrphanDbFiles",
       "ComputeClusterStats", "CheckDuplicatedDbFiles" >>

\* refreshScanSettings: the pair <<_settings, _scanSteps>> after the call
RefreshScanSettings(cached, steps, newSettings) ==
    IF cached = newSettings
    THEN << cached, steps >>
    ELSE << newSettings, BuildScanSteps >>

\* ---------------------------------------------------- dates and times
\* A WDate is the number of days since Monday 1 January 2024, a WTime a
\* number of seconds since midnight (a WTime is a duration: adding to it
\* does not wrap), a WDateTime a date with a time of day.
SecsPerDay == 86400
MonthLengths == << 31, 29, 31, 30, 31, 30, 31, 31, 30, 31, 30, 31 >>

\* WDate::dayOfWeek(): 1 is Monday
DayOfWeek(date) == (date % 7) + 1

\* WDate::day(): the day of the month
RECURSIVE DayFrom(_, _)
DayFrom(days, month) ==
    IF days < MonthLengths[month]
    THEN days + 1
    ELSE DayFrom(days - MonthLengths[month], (month % 12) + 1)

DayOfMonth(date) == DayFrom(date, 1)

\* WDate::addDays
AddDays(date, n) == date + n

\* (a time of day that wraps at midnight)
AddSecsWrapped(time, secs) == (time + secs) % SecsPerDay
\* WTime::addSecs
AddSecs(time, secs) == time + secs

\* a null WDateTime
NullWDateTime == [valid |-> FALSE, date |-> 0, time |-> 0]

\* WDateTime{ date, time }
WDateTime(date, time) ==
    [valid |-> TRUE, date |-> date + (time \div SecsPerDay), time |-> time % SecsPerDay]

\* getNextMonday: "do current = current.addDays(1) while (dayOfWeek != 1)"
RECURSIVE GetNextMonday(_)
GetNextMonday(current) ==
    IF DayOfWeek(AddDays(current, 1)) # 1
    THEN GetNextMonday(AddDays(current, 1))
    ELSE AddDays(current, 1)

\* getNextFirstOfMonth: "do current = current.addDays(1) while (day != 1)"
RECURSIVE GetNextFirstOfMonth(_)
GetNextFirstOfMonth(current) ==
    IF DayOfMonth(AddDays(current, 1)) # 1
    THEN GetNextFirstOfMonth(AddDays(current, 1))
    ELSE AddDays(current, 1)

\* (a comparison that takes the start time itself for "before")
NotAfterStartTime(now, s) == now.time <= s.startTime
\* "now.time() < _settings.startTime"
BeforeStartTime(now, s) == now.time < s.startTime

\* scheduleNextScan's switch on the update period
NextScanDateTimeAt(now, s) ==
    CASE s.updatePeriod = "Daily" ->
            IF BeforeStartTime(now, s)
            THEN WDateTime(now.date, s.startTime)
            ELSE WDateTime(AddDays(now.date, 1), s.startTime)
      [] s.updatePeriod = "Weekly" ->
            IF BeforeStartTime(now, s) /\ DayOfWeek(now.date) = 1
            THEN WDateTime(now.date, s.startTime)
            ELSE WDateTime(GetNextMonday(now.date), s.startTime)
      [] s.updatePeriod = "Monthly" ->
            IF BeforeStartTime(now, s) /\ DayOfMonth(now.date) = 1
            THEN WDateTime(now.date, s.startTime)
            ELSE WDateTime(GetNextFirstOfMonth(now.date), s.startTime)
      [] s.updatePeriod = "Hourly" ->
            WDateTime(now.date, AddSecs(now.time, 3600))
      [] s.updatePeriod = "Never" -> NullWDateTime

\* the current date-times and start times tried
Dates == 0..MaxDay
TimesOfDay == {0, 25200, 28799, 28800, 28801, 36000, 82799, 82800, 84600, 86399}
StartTimes == {0, 28800, 86399}

\* b is a later date-time than a
Later(a, b) == b.date > a.date \/ (b.date = a.date /\ b.time > a.time)

\* the seconds from midnight of 1 January 2024 to a date-time
SecondsOf(dt) == dt.date * SecsPerDay + dt.time

\* the wall clock when the constructor returns: Monday 1 January 2024, 07:00
ClockStart == WDateTime(0, 25200)

\* the wall clock a tick later
ClockAfterTick(now) == WDateTime(now.date, now.time + ClockTick)

\* the wall clock can still be seen to go on
ClockBefore(now, ticks) == SecondsOf(now) < SecondsOf(ClockStart) + ticks * ClockTick

\* ------------------------------------------------------------ the settings
\* ScannerSettings: the nine fields readSettings() fills.  The values told
\* apart per field: the start times 01:00 and 07:30, the versions of the
\* scan settings, two lists of extensions, of libraries, of extra tags and
\* of delimiters.
Versions == 0..MaxVersion
SettingsValues ==
    [skipDuplicateMBID |-> BOOLEAN,
     scanVersion |-> Versions,
     startTime |-> {3600, 27000},
     updatePeriod |-> UpdatePeriods,
     supportedExtensions |-> {<< ".mp3" >>, << ".mp3", ".flac" >>},
     mediaLibraries |-> {<< [id |-> 1, rootPath |-> "/music"] >>,
                         << [id |-> 1, rootPath |-> "/music"],
                            [id |-> 2, rootPath |-> "/more" ] >>},
     extraTags |-> {<< >>, << "MOOD" >>},
     artistTagDelimiters |-> {<< >>, << ";" >>},
     defaultTagDelimiters |-> {<< >>, << "/" >>}]

AllSettings ==
    [skipDuplicateMBID : SettingsValues.skipDuplicateMBID,
     scanVersion : SettingsValues.scanVersion,
     startTime : SettingsValues.startTime,
     updatePeriod : SettingsValues.updatePeriod,
     supportedExtensions : SettingsValues.supportedExtensions,
     mediaLibraries : SettingsValues.mediaLibraries,
     extraTags : SettingsValues.extraTags,
     artistTagDelimiters : SettingsValues.artistTagDelimiters,
     defaultTagDelimiters : SettingsValues.defaultTagDelimiters]

\* what the store holds when nothing was configured beyond one library
BaseSettings ==
    [skipDuplicateMBID |-> FALSE, scanVersion |-> 0, startTime |-> 27000,
     updatePeriod |-> "Never", supportedExtensions |-> << ".mp3" >>,
     mediaLibraries |-> << [id |-> 1, rootPath |-> "/music"] >>,
     extraTags |-> << >>, artistTagDelimiters |-> << >>,
     defaultTagDelimiters |-> << >>]

\* the fields of the settings, those that scheduleNextScan reads first
SettingsFields ==
    << "updatePeriod", "startTime", "scanVersion", "skipDuplicateMBID",
       "supportedExtensions", "mediaLibraries", "extraTags",
       "artistTagDelimiters", "defaultTagDelimiters" >>

\* the fields in which two settings differ
DiffFields(a, b) == {f \in DOMAIN a : a[f] # b[f]}

\* the values of a field among the settings that vary in the first n fields
\* and are the base ones in the others
ValuesWithin(f, n) ==
    IF \E i \in 1..Len(SettingsFields) : i <= n /\ SettingsFields[i] = f
    THEN SettingsValues[f]
    ELSE {BaseSettings[f]}

SettingsVarying(n) ==
    [skipDuplicateMBID : ValuesWithin("skipDuplicateMBID", n),
     scanVersion : ValuesWithin("scanVersion", n),
     startTime : ValuesWithin("startTime", n),
     updatePeriod : ValuesWithin("updatePeriod", n),
     supportedExtensions : ValuesWithin("supportedExtensions", n),
     mediaLibraries : ValuesWithin("mediaLibraries", n),
     extraTags : ValuesWithin("extraTags", n),
     artistTagDelimiters : ValuesWithin("artistTagDelimiters", n),
     defaultTagDelimiters : ValuesWithin("defaultTagDelimiters", n)]

\* the settings readSettings() can return while the service runs: what the
\* store holds at the moment of the read (the configuration UI changes it
\* at any time)
StoredSettings == SettingsVarying(MaxStoredFields)
LiveStoredSettings == SettingsVarying(MaxLiveStoredFields)

\* the same where the files of the library are scanned
IdemStoredSettings ==
    {s \in SettingsVarying(MaxIdemFields) :
        s.updatePeriod \in {PeriodNames[i] : i \in 1..MaxIdemPeriods}}

\* a null WTime
NullWTime == -1

\* a default-constructed ScannerSettings: the cached copy before the first
\* refresh (its start time is a null WTime, which no stored setting has)
DefaultSettings ==
    [skipDuplicateMBID |-> FALSE, scanVersion |-> 0, startTime |-> NullWTime,
     updatePeriod |-> "Never", supportedExtensions |-> << >>,
     mediaLibraries |-> << >>, extraTags |-> << >>,
     artistTagDelimiters |-> << >>, defaultTagDelimiters |-> << >>]

\* handlers that wait in the io service
PostedNext == [kind |-> "next", force |-> FALSE, ec |-> FALSE]
PostedScan(f) == [kind |-> "imm", force |-> f, ec |-> FALSE]
TimerCb(f, e) == [kind |-> "timer", force |-> f, ec |-> e]

\* nothing to post
NoPost == [kind |-> "none", force |-> FALSE, ec |-> FALSE]

\* a pending async_wait on _scheduleTimer
TimerWait(f, at) == [force |-> f, at |-> at]

\* the handlers of the waits a cancel (or a new expiry) aborts
AbortedCbs(waits) == [i \in 1..Len(waits) |-> TimerCb(FALSE, TRUE)]

\* a thread of the io service: the statement it is at, the handler it runs
\* ("next": scheduleNextScan, "imm": scheduleScan, "scan": scan), the index
\* of the step the loop of scan() is at, who called notifyInProgress
\* ("begin", "callback", "end"), the scan's forceScan, its statistics, the
\* steps whose process() it has entered, scheduleNextScan's local
\* nextScanDateTime, and whether the refreshScanSettings() it has just
\* called built step objects
IdleThread ==
    [pc |-> "idle", kind |-> "none", step |-> 0, from |-> "begin",
     force |-> FALSE, stats |-> 0, log |-> << >>, next |-> NullWDateTime,
     built |-> FALSE]
ExitedThread == [IdleThread EXCEPT !.pc = "exited"]

\* a client thread: where it is in its operation, abortScan's local
\* isRunning, how the scan it saw running has ended since ("none": not yet),
\* and the handler it is about to post
IdleCaller == [pc |-> "idle", isRunning |-> FALSE, scanEnd |-> "none", post |-> NoPost]

\* the client threads that saw the ending scan in progress note how it ended
NoteScanEnd(callers, how) ==
    [c \in DOMAIN callers |->
        IF callers[c].isRunning /\ callers[c].scanEnd = "none"
        THEN [callers[c] EXCEPT !.scanEnd = how]
        ELSE callers[c]]

VARIABLES
    settings,               \* _settings, the cached copy
    scanSteps,              \* _scanSteps
    abortScanFlag,          \* _abortScan
    curState,               \* _curState
    nextScheduledScan,      \* _nextScheduledScan
    lastCompleteScanStats,  \* _lastCompleteScanStats (0: none)
    currentScanStepStats,   \* _currentScanStepStats ("none": empty)
    controlMutex,           \* owner of _controlMutex
    ioWork,                 \* the io service holds its work object (started)
    ioQueue,                \* handlers ready to run on the io service
    timerWaits,             \* pending waits on _scheduleTimer
    io,                     \* the io service's threads
    caller,                 \* the client threads
    events,                 \* events emitted by the last step
    stopped,                \* stop() has returned and start() was not called since
    cutShort,               \* a scan ended on the abort branch under the abortScan under way
    calls                   \* the control operations called so far

\* the status mutex, getStatus() and the time of the last scanInProgress
VARIABLES
    statusWriter,           \* the thread that holds _statusMutex exclusively
    statusReaders,          \* the threads that hold _statusMutex shared
    reader,                 \* the threads that call getStatus()
    sinceLastEmit,          \* now - _lastScanInProgressEmit, in half seconds
    scanStepsBuild,         \* the _scanSteps objects: the settings they were built from
    abortedInScan           \* _abortScan was set while the scan under way was running

scanVars == << statusWriter, statusReaders, reader, sinceLastEmit,
               scanStepsBuild, abortedInScan >>

\* scheduleNextScan's computation of the next date-time (DateSpec)
VARIABLES
    dateNow,                \* Wt::WDateTime::currentDateTime()
    dateSettings,           \* _settings: update period and start time
    dateNext                \* nextScanDateTime, once computed

dateVars == << dateNow, dateSettings, dateNext >>

\* the transactions of the database sessions (TxSpec)
VARIABLES
    txOpen,                 \* per session: the transactions it holds, innermost last
    dbMutexOwner,           \* the session whose thread holds the RecursiveSharedMutex exclusively
    dbMutexCount            \* how many times the owner has locked it

txVars == << txOpen, dbMutexOwner, dbMutexCount >>

\* the catalog and the orphan queries (OrphanSpec)
VARIABLES
    db,                     \* the tables artist, release, track, track_artist_link
    orphanArtists,          \* the rows Artist::findOrphanIds returned, per artist id
    orphanReleases          \* the rows Release::findOrphanIds returned, per release id

orphanVars == << db, orphanArtists, orphanReleases >>

\* the media files and the tracks of two scans in a row (IdemSpec)
VARIABLES
    fsFiles,                \* per path: the file on disk, or NoFile
    tracks,                 \* per path: the Track row, or NoTrack
    storedSettings,         \* the stored settings, as readSettings() returns them
    writes,                 \* the writes to the files and to the stored settings so far
    fsUnchanged,            \* a scan has completed, and nothing on disk or in the settings changed since it started
    scanContext             \* the ScanContext of the scan under way, and the files still to scan

idemVars == << fsFiles, tracks, storedSettings, writes, fsUnchanged,
              scanContext >>

\* the stream request of the subsonic API (StreamSpec)
VARIABLES
    streamRequest,          \* the request's parameters, its user and its track
    streamParameters        \* what getStreamParameters returned, once called

streamVars == << streamRequest, streamParameters >>

\* the thread-local sessions of the databases (TlsSpec)
VARIABLES
    tlsSession,             \* per thread: the static thread_local Session* of getTLSSession
    tlsSessions,            \* per Db: _tlsSessions, the sessions it owns
    tlsSessionsMutex,       \* per Db: the thread that holds _tlsSessionsMutex
    tlsCall,                \* per thread: where it is in getTLSSession, and on which Db
    tlsReturned             \* per thread: the Db of its last call and the session it got

tlsVars == << tlsSession, tlsSessions, tlsSessionsMutex, tlsCall, tlsReturned >>

\* the play queue of the user interface (QueueSpec)
VARIABLES
    entriesContainer,       \* _entriesContainer: the playlist entries shown, in order
    trackPos                \* _trackPos: the position of the current track, or NoTrackPos

queueVars == << entriesContainer, trackPos >>

\* the variables of the specifications of the other libraries
libVars == << idemVars, streamVars, tlsVars, queueVars >>

\* the variables of the specifications other than those of the service
auxVars == << dateVars, txVars, orphanVars, libVars >>

\* the variables of the scanner service: all but the abort flag, and all
scannerRest == << settings, scanSteps, curState,
                  nextScheduledScan, lastCompleteScanStats, currentScanStepStats,
                  controlMutex, ioWork, ioQueue, timerWaits, io, caller,
                  events, stopped, cutShort, calls >>
scannerVars == << abortScanFlag, scannerRest >>

vars == << settings, scanSteps, abortScanFlag, curState,
           nextScheduledScan, lastCompleteScanStats, currentScanStepStats,
           controlMutex, ioWork, ioQueue, timerWaits, io, caller,
           events, stopped, cutShort, calls, scanVars, auxVars >>

\* the threads that call getStatus()
ReaderNames == << "web", "rest", "sub" >>
Readers == {ReaderNames[i] : i \in 1..MaxReaders}
LiveReaders == {ReaderNames[i] : i \in 1..MaxLiveReaders}

\* the step objects the constructor's refresh built from the stored settings
FirstBuild(stored) == [from |-> stored]

\* nobody at the status mutex, no scanInProgress emitted yet
ScanParked ==
    /\ statusWriter = NoOwner
    /\ statusReaders = {}
    /\ reader = [r \in Readers |-> "idle"]
    /\ sinceLastEmit = MaxElapsed
    /\ abortedInScan = FALSE

\* the clock and the computation of DateSpec, as the other specifications
\* leave them
DateIdle ==
    /\ dateSettings = [updatePeriod |-> "Never", startTime |-> 0]
    /\ dateNext = NullWDateTime

DateParked ==
    /\ dateNow = WDateTime(0, 0)
    /\ DateIdle

\* ---------------------------------------------------------- the database
\* the sessions (one per thread) that open transactions
Sessions == {"scanner", "web", "rest"}

TxParked ==
    /\ txOpen = [s \in Sessions |-> << >>]
    /\ dbMutexOwner = NoOwner
    /\ dbMutexCount = 0

\* ids of the rows of the catalog, and the NULL of a column
ArtistIds == 1..MaxArtists
ReleaseIds == 1..2
TrackIds == 1..2
Null == 0

EmptyDb == [artist |-> {}, release |-> {}, track |-> {}, track_artist_link |-> {}]

OrphanParked ==
    /\ db = EmptyDb
    /\ orphanArtists = << >>
    /\ orphanReleases = << >>

\* ------------------------------------------------- the other libraries
\* the paths of the media files and their last-write times
Paths == 1..MaxPaths
Mtimes == 1..MaxMtime
NoFile == [mtime |-> 0, parsable |-> FALSE]
NoTrack == [mtime |-> 0, version |-> 0]
Files == [mtime : Mtimes, parsable : BOOLEAN]
Tracks == [mtime : Mtimes, version : Versions]
NoStats == [additions |-> 0, updates |-> 0, deletions |-> 0, skips |-> 0, errors |-> 0]

\* no scan context; the context of a scan has its forceRescan, the version
\* of the settings the scan read, its statistics, the discovered files not
\* scanned yet, and whether nothing changed on disk or in the settings
\* since the scan read the settings
NoScanContext ==
    [active |-> FALSE, forceRescan |-> FALSE, version |-> 0, stats |-> NoStats,
     found |-> {}, clean |-> FALSE]

IdemParked ==
    /\ fsFiles = [p \in Paths |-> NoFile]
    /\ tracks = [p \in Paths |-> NoTrack]
    /\ storedSettings = BaseSettings
    /\ writes = 0
    /\ fsUnchanged = FALSE
    /\ scanContext = NoScanContext

\* the values of the "format" parameter tried ("": not given), the
\* transcoding output formats of a user, the codecs of a track's best stream
\* ("NONE": the file has no audio stream), bitrates in bit/s and the values
\* of "maxBitRate" in kbit/s (0: not given)
StreamFormats == {"", "raw", "mp3", "opus", "vorbis", "flac"}
NoFormat == "nullopt"
TranscodingOutputFormats == {"MP3", "OGG_OPUS", "MATROSKA_OPUS", "OGG_VORBIS", "WEBM_VORBIS"}
DecodingCodecs == {"MP3", "OPUS", "VORBIS", "FLAC", "NONE"}
AllowedAudioBitrates == {64000, 128000, 320000}
TrackBitrates == {96000, 128000, 320000}
MaxBitRates == {0, 64, 128, 320}

NoStreamParameters ==
    [returned |-> FALSE, thrown |-> FALSE, transcoding |-> FALSE,
     format |-> NoFormat, bitrate |-> 0]

StreamParked ==
    /\ streamRequest = [maxBitRate |-> 0, format |-> "raw",
                        enableTranscodingByDefault |-> FALSE,
                        defaultFormat |-> "OGG_OPUS", defaultBitrate |-> 128000,
                        trackBitrate |-> 128000, codec |-> "MP3"]
    /\ streamParameters = NoStreamParameters

\* the Db instances of the process, the threads that use them, the
\* sessions (named by the Db and the thread they were made for)
Dbs == {"db1", "db2"}
DbThreads == 1..MaxThreads
NullSession == [db |-> "none", thread |-> 0]
NoCall == [pc |-> "idle", db |-> "none"]
NothingReturned == [db |-> "none", session |-> NullSession]

TlsParked ==
    /\ tlsSession = [t \in DbThreads |-> NullSession]
    /\ tlsSessions = [d \in Dbs |-> << >>]
    /\ tlsSessionsMutex = [d \in Dbs |-> 0]
    /\ tlsCall = [t \in DbThreads |-> NoCall]
    /\ tlsReturned = [t \in DbThreads |-> NothingReturned]

\* the playlist entries there are, and the empty std::optional of _trackPos
EntryIds == 1..MaxEntries
NoTrackPos == -1

QueueParked ==
    /\ entriesContainer = << >>
    /\ trackPos = NoTrackPos

LibParked == IdemParked /\ StreamParked /\ TlsParked /\ QueueParked

\* the variables of the other specifications, left alone by the service
AuxParked ==
    /\ DateParked
    /\ TxParked
    /\ OrphanParked
    /\ LibParked

\* the client side of the service at rest, the io thread waiting
ServiceParked ==
    /\ controlMutex = NoOwner
    /\ ioWork = TRUE
    /\ ioQueue = << >>
    /\ io = [t \in ThreadIds |-> IdleThread]
    /\ caller = [c \in Callers |-> IdleCaller]
    /\ stopped = FALSE
    /\ cutShort = FALSE
    /\ calls = 0

\* the scanner service at rest, as the other specifications leave it
ScannerParked ==
    /\ settings = BaseSettings
    /\ scanSteps = BuildScanSteps
    /\ abortScanFlag = FALSE
    /\ curState = "NotScheduled"
    /\ nextScheduledScan = NullWDateTime
    /\ lastCompleteScanStats = 0
    /\ currentScanStepStats = "none"
    /\ timerWaits = << >>
    /\ events = << >>
    /\ ServiceParked
    /\ ScanParked
    /\ scanStepsBuild = FirstBuild(settings)
    /\ DateParked

statusVars == << curState, nextScheduledScan, lastCompleteScanStats, currentScanStepStats >>
settingsVars == << settings, scanSteps >>

\* ------------------------------------------------------------------ Init
\* the state when the constructor returns: settings refreshed, the start()
\* handler posted and the io service started
InitOn(store) ==
    /\ \E stored \in store :
         /\ settings = RefreshScanSettings(DefaultSettings, << >>, stored)[1]
         /\ scanSteps = RefreshScanSettings(DefaultSettings, << >>, stored)[2]
    /\ abortScanFlag = FALSE
    /\ curState = "NotScheduled"
    /\ nextScheduledScan = NullWDateTime
    /\ lastCompleteScanStats = 0
    /\ currentScanStepStats = "none"
    /\ controlMutex = NoOwner
    /\ ioWork = TRUE
    /\ ioQueue = << PostedNext >>
    /\ timerWaits = << >>
    /\ io = [t \in ThreadIds |-> IdleThread]
    /\ caller = [c \in Callers |-> IdleCaller]
    /\ events = << >>
    /\ stopped = FALSE
    /\ cutShort = FALSE
    /\ calls = 0
    /\ ScanParked
    /\ scanStepsBuild = FirstBuild(settings)
    /\ dateNow = ClockStart
    /\ DateIdle
    /\ TxParked
    /\ OrphanParked
    /\ LibParked

Init == InitOn(StoredSettings)
LiveInit == InitOn(LiveStoredSettings)

\* ------------------------------------------------------ io service pieces
\* WIOService::start: take the work object and spawn the threads, once
IoStartThreads(threads, work) ==
    IF work THEN threads
    ELSE [t \in ThreadIds |-> IdleThread]

\* _scheduleTimer.cancel(): every pending wait completes with an error
CancelQueue(queue, waits) == queue \o AbortedCbs(waits)

\* (a stop of the io service that does not wait for its threads)
AllExitedNotAwaited == TRUE
\* _ioService.stop() has joined the threads
AllExited == \A t \in ThreadIds : io[t].pc = "exited"
SomeIdle == \E t \in ThreadIds : io[t].pc = "idle"

\* scheduleScan(force, dateTime): set the expiry (aborting the pending
\* waits) and wait again
ScheduleScanQueue(queue, waits) == queue \o AbortedCbs(waits)
\* (a scheduleScan that waits again without setting the expiry)
ScheduleScanWaitsKept(waits, f, at) == Append(waits, TimerWait(f, at))
ScheduleScanWaits(waits, f, at) == << TimerWait(f, at) >>

\* (a scheduleNextScan that asks for a forced scan)
ScheduleNextScanForced == TRUE
\* the force argument of scheduleNextScan's "scheduleScan(false, nextScanDateTime)"
ScheduleNextScanForce == FALSE

\* "ScanStats {}" with its start time: statistics that differ from the last
\* complete ones (1 and 2 name statistics objects, 0 is none)
FreshStats(last) == IF last = 1 THEN 2 ELSE 1

\* (an abort branch that publishes the statistics all the same)
ScanAbortedStatsPublished(last, stats) == stats
\* the last complete statistics the abort branch of scan() leaves
ScanAbortedStats(last, stats) == last
\* the last complete statistics the completion branch of scan() leaves
ScanCompleteStats(last, stats) == stats

\* the value abortScan() gives _abortScan before it restarts the io service
AbortScanClearedFlag == FALSE

\* the statements of an io thread that take _statusMutex, and the statement
\* each block starts with
AfterLock ==
    [started_lock |-> "started_set", notify_lock |-> "notify_set",
     publish_lock |-> "publish_set", sched_lock |-> "sched_set",
     aborted_lock |-> "aborted_set"]

\* (a block of notifyInProgress that does not end before the emission)
NotifyInProgressLockKept == "scan"
\* the owner of _statusMutex when the block of notifyInProgress has ended
NotifyInProgressUnlocked == NoOwner

\* notifyInProgressIfNeeded: more than one whole second since the last emission
NotifyNeeded(elapsed) == (elapsed \div 2) > 1

\* (a refresh that builds the steps whatever it read)
RefreshBuildsAlways(cached, newSettings) == TRUE
\* refreshScanSettings: "if (_settings == newSettings) return;", else new
\* step objects are built
RefreshBuilds(cached, newSettings) == cached # newSettings

\* refreshScanSettings: the step objects after the call
RefreshScanStepsBuild(cached, build, newSettings) ==
    IF cached = newSettings
    THEN build
    ELSE [from |-> newSettings]

\* (a block that gives up _statusMutex between its two assignments)
StatusBlockEndsEarly == NoOwner
\* the owner of _statusMutex between the two assignments of a block
StatusBlockHeld == "scan"

\* (a block that leaves the step statistics as they are)
StepStatsKept(stepStats) == stepStats
\* _currentScanStepStats.reset()
StepStatsReset(stepStats) == "none"

\* the statements of abortScan() between "_abortScan = true" and the return
\* of "_ioService.stop()"
AbortingPcs == {"abort_cancel", "abort_stop", "abort_join"}

\* a scan is under way on some io thread (its process() has not thrown)
ScanUnderWay(threads) ==
    \E t \in ThreadIds : threads[t].kind = "scan" /\ threads[t].pc # "thrown"

\* what no statement of an io thread changes
clientVars == << abortScanFlag, controlMutex, ioWork, stopped, calls,
                 statusReaders, reader, auxVars >>

\* the part of the state a statement of an io thread leaves alone when it
\* neither touches the status, the mutex, the timer or the settings nor ends
\* a scan
quietVars == << clientVars, settingsVars, scanStepsBuild, ioQueue, timerWaits,
                caller, cutShort, sinceLastEmit, abortedInScan >>

\* ------------------------------------------------- io thread: the handlers
\* the handler posted by start(), requestReload() or requestImmediateScan():
\* "if (_abortScan) return;"
RunPosted(t) ==
    /\ io[t].pc = "idle"
    /\ ioQueue # << >>
    /\ Head(ioQueue).kind \in {"next", "imm"}
    /\ ioQueue' = Tail(ioQueue)
    /\ io' = [io EXCEPT ![t] =
                IF abortScanFlag THEN IdleThread
                ELSE [IdleThread EXCEPT !.pc = "sched",
                                        !.kind = Head(ioQueue).kind,
                                        !.force = Head(ioQueue).force]]
    /\ events' = << >>
    /\ UNCHANGED << clientVars, settingsVars, scanStepsBuild, statusVars,
                    timerWaits, caller, cutShort, statusWriter, sinceLastEmit,
                    abortedInScan >>

\* ... then scheduleScan(force) with a null date-time (requestImmediateScan)
DoScheduleScan(t) ==
    /\ io[t].pc = "sched"
    /\ io[t].kind = "imm"
    /\ ioQueue' = ScheduleScanQueue(ioQueue, timerWaits)
    /\ timerWaits' = ScheduleScanWaits(timerWaits, io[t].force, NullWDateTime)
    /\ io' = [io EXCEPT ![t] = IdleThread]
    /\ events' = << >>
    /\ UNCHANGED << clientVars, settingsVars, scanStepsBuild, statusVars,
                    caller, cutShort, statusWriter, sinceLastEmit,
                    abortedInScan >>

\* the expiry of a wait is reached: at once for "expires_from_now(0)", else
\* when the clock is at its date-time
Expired(wait, now) == ~wait.at.valid \/ ~Later(now, wait.at)

\* the schedule timer reaches its expiry: a thread running the io service
\* completes the wait and queues its handler
TimerExpire ==
    /\ timerWaits # << >>
    /\ Expired(Head(timerWaits), dateNow)
    /\ SomeIdle
    /\ ioQueue' = Append(ioQueue, TimerCb(Head(timerWaits).force, FALSE))
    /\ timerWaits' = Tail(timerWaits)
    /\ events' = << >>
    /\ UNCHANGED << clientVars, settingsVars, scanStepsBuild, statusVars, io,
                    caller, cutShort, statusWriter, sinceLastEmit,
                    abortedInScan >>

\* the wait handler of scheduleScan: return on error, else scan(force),
\* which emits scanStarted
ScanTimerCb(t) ==
    /\ io[t].pc = "idle"
    /\ ioQueue # << >>
    /\ Head(ioQueue).kind = "timer"
    /\ ioQueue' = Tail(ioQueue)
    /\ IF Head(ioQueue).ec
       THEN /\ events' = << >>
            /\ UNCHANGED io
       ELSE /\ events' = << "scanStarted" >>
            /\ io' = [io EXCEPT ![t] =
                        [IdleThread EXCEPT !.pc = "started_lock",
                                           !.kind = "scan",
                                           !.force = Head(ioQueue).force]]
    /\ UNCHANGED << clientVars, settingsVars, scanStepsBuild, statusVars,
                    timerWaits, caller, cutShort, statusWriter, sinceLastEmit,
                    abortedInScan >>

\* std::unique_lock lock{ _statusMutex } on an io thread
StatusLock(t) ==
    /\ io[t].pc \in DOMAIN AfterLock
    /\ statusWriter = NoOwner
    /\ statusReaders = {}
    /\ statusWriter' = "scan"
    /\ io' = [io EXCEPT ![t].pc = AfterLock[io[t].pc], ![t].built = FALSE]
    /\ events' = << >>
    /\ UNCHANGED << quietVars, statusVars >>

\* scan(): the state becomes InProgress ...
ScanSetInProgress(t) ==
    /\ io[t].pc = "started_set"
    /\ curState' = "InProgress"
    /\ statusWriter' = StatusBlockHeld
    /\ io' = [io EXCEPT ![t].pc = "started_next"]
    /\ events' = << >>
    /\ UNCHANGED << quietVars, nextScheduledScan, lastCompleteScanStats,
                    currentScanStepStats >>

\* ... and the next scheduled scan is reset, the block ends
ScanResetNextScheduled(t) ==
    /\ io[t].pc = "started_next"
    /\ nextScheduledScan' = NullWDateTime
    /\ statusWriter' = NoOwner
    /\ io' = [io EXCEPT ![t].pc = "refresh"]
    /\ events' = << >>
    /\ UNCHANGED << quietVars, curState, lastCompleteScanStats,
                    currentScanStepStats >>

\* scan(): refreshScanSettings(), the scan context with its new statistics,
\* then the loop is entered
ScanRefresh(t, stored) ==
    /\ io[t].pc = "refresh"
    /\ settings' = RefreshScanSettings(settings, scanSteps, stored)[1]
    /\ scanSteps' = RefreshScanSettings(settings, scanSteps, stored)[2]
    /\ scanStepsBuild' = RefreshScanStepsBuild(settings, scanStepsBuild, stored)
    /\ io' = [io EXCEPT ![t].pc = IF scanSteps' = << >> THEN "analyze" ELSE "notify_lock",
                        ![t].step = IF scanSteps' = << >> THEN 0 ELSE 1,
                        ![t].from = "begin",
                        ![t].stats = FreshStats(lastCompleteScanStats),
                        ![t].built = RefreshBuilds(settings, stored)]
    /\ events' = << >>
    /\ UNCHANGED << clientVars, statusVars, ioQueue, timerWaits, caller,
                    cutShort, statusWriter, sinceLastEmit, abortedInScan >>

\* notifyInProgress: the step statistics are copied, the block ends
NotifySet(t) ==
    /\ io[t].pc = "notify_set"
    /\ currentScanStepStats' = scanSteps[io[t].step]
    /\ statusWriter' = NotifyInProgressUnlocked
    /\ io' = [io EXCEPT ![t].pc = "notify_emit"]
    /\ events' = << >>
    /\ UNCHANGED << quietVars, curState, nextScheduledScan,
                    lastCompleteScanStats >>

\* notifyInProgress: scanInProgress is emitted and its time noted; on to the
\* step's process() (at the step's start), back into it (from its callback),
\* to the next step, or out of the loop
NotifyEmit(t) ==
    /\ io[t].pc = "notify_emit"
    /\ events' = << "scanInProgress" >>
    /\ sinceLastEmit' = 0
    /\ io' = [io EXCEPT ![t] =
                IF io[t].from = "begin"
                THEN [@ EXCEPT !.pc = "process",
                               !.log = Append(@, scanSteps[io[t].step])]
                ELSE IF io[t].from = "callback"
                THEN [@ EXCEPT !.pc = "process", !.from = "begin"]
                ELSE IF io[t].step < Len(scanSteps)
                THEN [@ EXCEPT !.pc = "notify_lock", !.step = @ + 1, !.from = "begin"]
                ELSE [@ EXCEPT !.pc = "analyze", !.step = 0, !.from = "begin"]]
    /\ UNCHANGED << clientVars, settingsVars, scanStepsBuild, statusVars,
                    ioQueue, timerWaits, caller, cutShort, statusWriter,
                    abortedInScan >>

\* the step's process() calls its progress callback, notifyInProgressIfNeeded
ProcessCallback(t) ==
    /\ io[t].pc = "process"
    /\ NotifyNeeded(sinceLastEmit)
    /\ io' = [io EXCEPT ![t].pc = "notify_lock", ![t].from = "callback"]
    /\ events' = << >>
    /\ UNCHANGED << quietVars, statusVars, statusWriter >>

\* the step's process() returns: notifyInProgress again
ProcessReturn(t) ==
    /\ io[t].pc = "process"
    /\ io' = [io EXCEPT ![t].pc = "notify_lock", ![t].from = "end"]
    /\ events' = << >>
    /\ UNCHANGED << quietVars, statusVars, statusWriter >>

\* the step's process() raises a failure: it leaves scan() and the handler,
\* which have no handler for it
ProcessThrow(t) ==
    /\ io[t].pc = "process"
    /\ io' = [io EXCEPT ![t].pc = "thrown"]
    /\ events' = << >>
    /\ abortedInScan' = FALSE
    /\ UNCHANGED << clientVars, settingsVars, scanStepsBuild, statusVars,
                    ioQueue, timerWaits, caller, cutShort, statusWriter,
                    sinceLastEmit >>

\* scan(): _dbSession.analyze(), then "if (!_abortScan)"
ScanAnalyze(t) ==
    /\ io[t].pc = "analyze"
    /\ io' = [io EXCEPT ![t].pc = IF ~abortScanFlag THEN "publish_lock"
                                  ELSE "aborted_lock",
                        ![t].built = FALSE]
    /\ events' = << >>
    /\ UNCHANGED << quietVars, statusVars, statusWriter >>

\* scan(), not aborted: the statistics are published, the block ends
ScanPublish(t) ==
    /\ io[t].pc = "publish_set"
    /\ lastCompleteScanStats' = ScanCompleteStats(lastCompleteScanStats, io[t].stats)
    /\ currentScanStepStats' = StepStatsReset(currentScanStepStats)
    /\ statusWriter' = NoOwner
    /\ io' = [io EXCEPT ![t].pc = "sched"]
    /\ events' = << >>
    /\ UNCHANGED << quietVars, curState, nextScheduledScan >>

\* scheduleNextScan(), called by the handler of start() or requestReload()
\* or by scan(): refresh, now is read, the switch gives nextScanDateTime,
\* scheduleScan when it is valid
ScanScheduleNext(t, stored) ==
    /\ io[t].pc = "sched"
    /\ io[t].kind \in {"next", "scan"}
    /\ settings' = RefreshScanSettings(settings, scanSteps, stored)[1]
    /\ scanSteps' = RefreshScanSettings(settings, scanSteps, stored)[2]
    /\ scanStepsBuild' = RefreshScanStepsBuild(settings, scanStepsBuild, stored)
    /\ io' = [io EXCEPT ![t].pc = "sched_lock",
                        ![t].next = NextScanDateTimeAt(dateNow, settings'),
                        ![t].built = RefreshBuilds(settings, stored)]
    /\ IF io'[t].next.valid
       THEN /\ ioQueue' = ScheduleScanQueue(ioQueue, timerWaits)
            /\ timerWaits' = ScheduleScanWaits(timerWaits, ScheduleNextScanForce,
                                               io'[t].next)
       ELSE UNCHANGED << ioQueue, timerWaits >>
    /\ events' = << >>
    /\ UNCHANGED << clientVars, statusVars, caller, cutShort, statusWriter,
                    sinceLastEmit, abortedInScan >>

\* scheduleNextScan(): the state is set ...
ScheduleSetState(t) ==
    /\ io[t].pc = "sched_set"
    /\ curState' = IF io[t].next.valid THEN "Scheduled" ELSE "NotScheduled"
    /\ statusWriter' = StatusBlockHeld
    /\ io' = [io EXCEPT ![t].pc = "sched_next"]
    /\ events' = << >>
    /\ UNCHANGED << quietVars, nextScheduledScan, lastCompleteScanStats,
                    currentScanStepStats >>

\* ... and the next scheduled scan, the block ends
ScheduleSetNextScheduled(t) ==
    /\ io[t].pc = "sched_next"
    /\ nextScheduledScan' = io[t].next
    /\ statusWriter' = NoOwner
    /\ io' = [io EXCEPT ![t].pc = "sched_emit"]
    /\ events' = << >>
    /\ UNCHANGED << quietVars, curState, lastCompleteScanStats,
                    currentScanStepStats >>

\* scheduleNextScan() emits scanScheduled and returns, to scan() or out of
\* the handler
ScheduleEmit(t) ==
    /\ io[t].pc = "sched_emit"
    /\ events' = << "scanScheduled" >>
    /\ io' = [io EXCEPT ![t] = IF io[t].kind = "scan"
                               THEN [@ EXCEPT !.pc = "complete_emit",
                                              !.next = NullWDateTime]
                               ELSE IdleThread]
    /\ UNCHANGED << quietVars, statusVars, statusWriter >>

\* scan() emits scanComplete and returns
ScanEmitComplete(t) ==
    /\ io[t].pc = "complete_emit"
    /\ events' = << "scanComplete" >>
    /\ io' = [io EXCEPT ![t] = IdleThread]
    /\ caller' = NoteScanEnd(caller, "complete")
    /\ abortedInScan' = FALSE
    /\ UNCHANGED << clientVars, settingsVars, scanStepsBuild, statusVars,
                    ioQueue, timerWaits, cutShort, statusWriter, sinceLastEmit >>

\* scan(), aborted: NotScheduled, the step statistics reset; the lock goes
\* when scan() returns
ScanAbortedSet(t) ==
    /\ io[t].pc = "aborted_set"
    /\ curState' = "NotScheduled"
    /\ currentScanStepStats' = StepStatsReset(currentScanStepStats)
    /\ lastCompleteScanStats' = ScanAbortedStats(lastCompleteScanStats, io[t].stats)
    /\ statusWriter' = NoOwner
    /\ io' = [io EXCEPT ![t] = IdleThread]
    /\ cutShort' = \E c \in Callers : caller[c].pc \in AbortingPcs
    /\ caller' = NoteScanEnd(caller, "aborted")
    /\ abortedInScan' = FALSE
    /\ events' = << >>
    /\ UNCHANGED << clientVars, settingsVars, scanStepsBuild, nextScheduledScan,
                    ioQueue, timerWaits, sinceLastEmit >>

\* a thread of the io service leaves run(): the work object is gone and
\* nothing is queued or pending
ThreadExit(t) ==
    /\ io[t].pc = "idle"
    /\ \A u \in ThreadIds : io[u].pc \in {"idle", "exited"}
    /\ ~ioWork
    /\ ioQueue = << >>
    /\ timerWaits = << >>
    /\ io' = [io EXCEPT ![t] = ExitedThread]
    /\ events' = << >>
    /\ UNCHANGED << quietVars, statusVars, statusWriter >>

\* the part of the state a statement of a client thread leaves alone when it
\* touches neither the flag, the io service nor the status mutex
callerQuiet == << settingsVars, scanStepsBuild, statusVars, statusReaders,
                  reader, sinceLastEmit, auxVars >>

\* ------------------------------------------- client threads: the operations
\* start(): take the control mutex, post the scheduling handler ...
StartBegin(c) ==
    /\ caller[c].pc = "idle"
    /\ calls' = calls + 1
    /\ controlMutex = NoOwner
    /\ controlMutex' = c
    /\ ioQueue' = Append(ioQueue, PostedNext)
    /\ caller' = [caller EXCEPT ![c] = [IdleCaller EXCEPT !.pc = "start_io"]]
    /\ stopped' = FALSE
    /\ events' = << >>
    /\ UNCHANGED << callerQuiet, abortScanFlag, ioWork, timerWaits, io,
                    cutShort, statusWriter, abortedInScan >>

\* ... "_ioService.start()"; start() returns
StartEnd(c) ==
    /\ caller[c].pc = "start_io"
    /\ io' = IoStartThreads(io, ioWork)
    /\ ioWork' = TRUE
    /\ controlMutex' = NoOwner
    /\ caller' = [caller EXCEPT ![c] = IdleCaller]
    /\ events' = << >>
    /\ UNCHANGED << callerQuiet, calls, abortScanFlag, ioQueue, timerWaits,
                    stopped, cutShort, statusWriter, abortedInScan >>

\* stop(): take the control mutex, "_abortScan = true" ...
StopBegin(c) ==
    /\ caller[c].pc = "idle"
    /\ calls' = calls + 1
    /\ controlMutex = NoOwner
    /\ controlMutex' = c
    /\ abortScanFlag' = TRUE
    /\ abortedInScan' = (abortedInScan \/ ScanUnderWay(io))
    /\ caller' = [caller EXCEPT ![c] = [IdleCaller EXCEPT !.pc = "stop_cancel"]]
    /\ events' = << >>
    /\ UNCHANGED << callerQuiet, ioWork, ioQueue, timerWaits, io, stopped,
                    cutShort, statusWriter >>

\* ... "_scheduleTimer.cancel()" ...
StopCancel(c) ==
    /\ caller[c].pc = "stop_cancel"
    /\ ioQueue' = CancelQueue(ioQueue, timerWaits)
    /\ timerWaits' = << >>
    /\ caller' = [caller EXCEPT ![c].pc = "stop_stop"]
    /\ events' = << >>
    /\ UNCHANGED << callerQuiet, calls, abortScanFlag, controlMutex, ioWork, io,
                    stopped, cutShort, statusWriter, abortedInScan >>

\* ... "_ioService.stop()": the work object is given up ...
StopIoStop(c) ==
    /\ caller[c].pc = "stop_stop"
    /\ ioWork' = FALSE
    /\ caller' = [caller EXCEPT ![c].pc = "stop_join"]
    /\ events' = << >>
    /\ UNCHANGED << callerQuiet, calls, abortScanFlag, controlMutex, ioQueue,
                    timerWaits, io, stopped, cutShort, statusWriter,
                    abortedInScan >>

\* ... which joins the io threads; stop() returns
StopJoin(c) ==
    /\ caller[c].pc = "stop_join"
    /\ AllExited
    /\ controlMutex' = NoOwner
    /\ caller' = [caller EXCEPT ![c] = IdleCaller]
    /\ stopped' = TRUE
    /\ events' = << >>
    /\ UNCHANGED << callerQuiet, calls, abortScanFlag, ioWork, ioQueue, timerWaits,
                    io, cutShort, statusWriter, abortedInScan >>

\* abortScan(), called directly or by requestStop / requestImmediateScan /
\* requestReload: std::scoped_lock lock{ _statusMutex }
AbortStatusLock(c) ==
    /\ caller[c].pc = "idle"
    /\ calls' = calls + 1
    /\ statusWriter = NoOwner
    /\ statusReaders = {}
    /\ statusWriter' = c
    /\ caller' = [caller EXCEPT ![c] = [IdleCaller EXCEPT !.pc = "abort_status"]]
    /\ events' = << >>
    /\ UNCHANGED << callerQuiet, abortScanFlag, controlMutex, ioWork, ioQueue,
                    timerWaits, io, stopped, cutShort, abortedInScan >>

\* isRunning is read, the block ends
AbortEnter(c) ==
    /\ caller[c].pc = "abort_status"
    /\ caller' = [caller EXCEPT ![c].pc = "abort_lock",
                                ![c].isRunning = (curState = "InProgress")]
    /\ statusWriter' = NoOwner
    /\ events' = << >>
    /\ UNCHANGED << callerQuiet, calls, abortScanFlag, controlMutex, ioWork, ioQueue,
                    timerWaits, io, stopped, cutShort, abortedInScan >>

\* take the control mutex, "_abortScan = true" ...
AbortBegin(c) ==
    /\ caller[c].pc = "abort_lock"
    /\ controlMutex = NoOwner
    /\ controlMutex' = c
    /\ abortScanFlag' = TRUE
    /\ abortedInScan' = (abortedInScan \/ ScanUnderWay(io))
    /\ caller' = [caller EXCEPT ![c].pc = "abort_cancel"]
    /\ cutShort' = FALSE
    /\ events' = << >>
    /\ UNCHANGED << callerQuiet, calls, ioWork, ioQueue, timerWaits, io, stopped,
                    statusWriter >>

\* ... "_scheduleTimer.cancel()" ...
AbortCancel(c) ==
    /\ caller[c].pc = "abort_cancel"
    /\ ioQueue' = CancelQueue(ioQueue, timerWaits)
    /\ timerWaits' = << >>
    /\ caller' = [caller EXCEPT ![c].pc = "abort_stop"]
    /\ events' = << >>
    /\ UNCHANGED << callerQuiet, calls, abortScanFlag, controlMutex, ioWork, io,
                    stopped, cutShort, statusWriter, abortedInScan >>

\* ... "_ioService.stop()": the work object is given up ...
AbortIoStop(c) ==
    /\ caller[c].pc = "abort_stop"
    /\ ioWork' = FALSE
    /\ caller' = [caller EXCEPT ![c].pc = "abort_join"]
    /\ events' = << >>
    /\ UNCHANGED << callerQuiet, calls, abortScanFlag, controlMutex, ioQueue,
                    timerWaits, io, stopped, cutShort, statusWriter,
                    abortedInScan >>

\* ... which joins the io threads; then "_abortScan = false" and
\* "_ioService.start()" ...
AbortJoin(c) ==
    /\ caller[c].pc = "abort_join"
    /\ AllExited
    /\ abortScanFlag' = AbortScanClearedFlag
    /\ io' = IoStartThreads(io, ioWork)
    /\ ioWork' = TRUE
    /\ caller' = [caller EXCEPT ![c].pc = "abort_emit"]
    /\ events' = << >>
    /\ UNCHANGED << callerQuiet, calls, controlMutex, ioQueue, timerWaits, stopped,
                    cutShort, statusWriter, abortedInScan >>

\* what the caller of abortScan() posts when abortScan() has returned:
\* nothing (abortScan, requestStop), the scheduling handler (requestReload)
\* or the scan handler (requestImmediateScan(force))
Posts == {NoPost} \cup {PostedNext} \cup {PostedScan(f) : f \in BOOLEAN}

\* ... scanAborted is emitted if isRunning; abortScan() returns and gives up
\* the control mutex (the operation that called it shows only now, in what
\* it posts next)
AbortReturn(c, toPost) ==
    /\ caller[c].pc = "abort_emit"
    /\ events' = IF caller[c].isRunning THEN << "scanAborted" >> ELSE << >>
    /\ controlMutex' = NoOwner
    /\ caller' = [caller EXCEPT ![c] =
                    IF toPost = NoPost THEN IdleCaller
                    ELSE [IdleCaller EXCEPT !.pc = "post", !.post = toPost]]
    /\ cutShort' = FALSE
    /\ UNCHANGED << callerQuiet, calls, abortScanFlag, ioWork, ioQueue, timerWaits,
                    io, stopped, statusWriter, abortedInScan >>

\* requestImmediateScan / requestReload: post the handler; the request returns
Post(c) ==
    /\ caller[c].pc = "post"
    /\ ioQueue' = Append(ioQueue, caller[c].post)
    /\ caller' = [caller EXCEPT ![c] = IdleCaller]
    /\ events' = << >>
    /\ UNCHANGED << callerQuiet, calls, abortScanFlag, controlMutex, ioWork,
                    timerWaits, io, stopped, cutShort, statusWriter,
                    abortedInScan >>

\* ------------------------------------------------ getStatus() and wall time
\* what neither getStatus() nor the passing of time changes
statusQuiet == << settingsVars, scanStepsBuild, statusVars, abortScanFlag,
                  controlMutex, ioWork, ioQueue, timerWaits, io, caller,
                  stopped, cutShort, calls, statusWriter, abortedInScan,
                  auxVars >>

\* a thread calls getStatus()
GetStatusCall(r) ==
    /\ reader[r] = "idle"
    /\ reader' = [reader EXCEPT ![r] = "lock"]
    /\ events' = << >>
    /\ UNCHANGED << statusQuiet, statusReaders, sinceLastEmit >>

\* getStatus(): std::shared_lock lock{ _statusMutex }
GetStatusLock(r) ==
    /\ reader[r] = "lock"
    /\ statusWriter = NoOwner
    /\ statusReaders' = statusReaders \cup {r}
    /\ reader' = [reader EXCEPT ![r] = "copy"]
    /\ events' = << >>
    /\ UNCHANGED << statusQuiet, sinceLastEmit >>

\* getStatus(): the four fields are copied, the lock released, the copy returned
GetStatusReturn(r) ==
    /\ reader[r] = "copy"
    /\ statusReaders' = statusReaders \ {r}
    /\ reader' = [reader EXCEPT ![r] = "idle"]
    /\ events' = << >>
    /\ UNCHANGED << statusQuiet, sinceLastEmit >>

\* wall time passes: two seconds and more since the last scanInProgress
TimePasses ==
    /\ sinceLastEmit < MaxElapsed
    /\ sinceLastEmit' = MaxElapsed
    /\ events' = << >>
    /\ UNCHANGED << statusQuiet, statusReaders, reader >>

\* what the wall clock leaves alone
clockQuiet == << settingsVars, scanStepsBuild, statusVars, abortScanFlag,
                controlMutex, ioWork, ioQueue, timerWaits, io, caller,
                stopped, cutShort, calls, statusWriter, abortedInScan,
                statusReaders, reader, dateSettings, dateNext, txVars,
                orphanVars, libVars >>

\* the wall clock is seen a tick later
ClockTicks(ticks) ==
    /\ ClockBefore(dateNow, ticks)
    /\ dateNow' = ClockAfterTick(dateNow)
    /\ sinceLastEmit' = MaxElapsed
    /\ events' = << >>
    /\ UNCHANGED clockQuiet

\* the wall clock is seen at the expiry of the pending wait, for which a
\* client thread waits inside _ioService.stop()
ClockReaches ==
    /\ timerWaits # << >>
    /\ ~Expired(Head(timerWaits), dateNow)
    /\ \E c \in Callers : caller[c].pc \in {"stop_join", "abort_join"}
    /\ dateNow' = Head(timerWaits).at
    /\ sinceLastEmit' = MaxElapsed
    /\ events' = << >>
    /\ UNCHANGED clockQuiet

\* ------------------------------------------------------ the specifications
\* the statements an io thread runs while it holds _statusMutex
ScanLocked(t) ==
    \/ ScanSetInProgress(t)
    \/ ScanResetNextScheduled(t)
    \/ NotifySet(t)
    \/ ScanPublish(t)
    \/ ScheduleSetState(t)
    \/ ScheduleSetNextScheduled(t)
    \/ ScanAbortedSet(t)

\* the other statements of an io thread, the store holding any of the
\* settings given when readSettings() reads it
ScanUnlockedOn(t, store) ==
    \/ RunPosted(t)
    \/ DoScheduleScan(t)
    \/ ScanTimerCb(t)
    \/ StatusLock(t)
    \/ \E stored \in store : ScanRefresh(t, stored)
    \/ NotifyEmit(t)
    \/ ProcessCallback(t)
    \/ ProcessReturn(t)
    \/ ProcessThrow(t)
    \/ ScanAnalyze(t)
    \/ \E stored \in store : ScanScheduleNext(t, stored)
    \/ ScheduleEmit(t)
    \/ ScanEmitComplete(t)
    \/ ThreadExit(t)

ScanUnlocked(t) == ScanUnlockedOn(t, StoredSettings)

IoNext == \E t \in ThreadIds : ScanLocked(t) \/ ScanUnlocked(t)
LiveIoNext == \E t \in ThreadIds : ScanLocked(t) \/ ScanUnlockedOn(t, LiveStoredSettings)

\* a client thread calls start(), stop() or abortScan() (by itself or through
\* a request)
CallerCalls(c) ==
    \/ StartBegin(c)
    \/ StopBegin(c)
    \/ AbortStatusLock(c)

\* a client thread inside an operation goes on
CallerGoesOn(c) ==
    \/ StartEnd(c)
    \/ StopCancel(c)
    \/ StopIoStop(c)
    \/ StopJoin(c)
    \/ AbortEnter(c)
    \/ AbortBegin(c)
    \/ AbortCancel(c)
    \/ AbortIoStop(c)
    \/ AbortJoin(c)
    \/ \E toPost \in Posts : AbortReturn(c, toPost)
    \/ Post(c)

\* the client threads call at most so many operations
CallerOps(callers, maxCalls) ==
    \E c \in callers :
        \/ calls < maxCalls /\ CallerCalls(c)
        \/ CallerGoesOn(c)

\* the service with its client threads, its io thread, the timer and the
\* clock
Next ==
    \/ IoNext
    \/ TimerExpire
    \/ CallerOps(Callers, MaxCalls)
    \/ TimePasses
    \/ ClockTicks(MaxTicks)

Spec == Init /\ [][Next]_vars

\* The client threads of LiveCallers, and progress: the io thread runs what
\* is ready, a step's process() comes to its end however often it reports
\* its progress, an expired wait's handler is queued, the wall clock comes
\* to the expiry of the pending wait while a client thread waits for the io
\* threads to end, and a client thread inside an operation goes on to its
\* end (whether an operation is called at all is left open).
LiveNext ==
    \/ LiveIoNext
    \/ TimerExpire
    \/ CallerOps(LiveCallers, MaxLiveCalls)
    \/ TimePasses
    \/ ClockTicks(MaxTicks)
    \/ ClockReaches

LiveSpec ==
    /\ LiveInit
    /\ [][LiveNext]_vars
    /\ WF_vars(LiveIoNext)
    /\ SF_vars(\E t \in ThreadIds : ProcessReturn(t) \/ ProcessThrow(t))
    /\ WF_vars(TimerExpire)
    /\ WF_vars(ClockReaches)
    /\ \A c \in LiveCallers : WF_vars(CallerGoesOn(c))

\* The scan thread with the client threads of LiveCallers, and getStatus()
\* called from other threads
ScanNext ==
    \/ LiveIoNext
    \/ TimerExpire
    \/ CallerOps(LiveCallers, MaxLiveCalls)
    \/ \E r \in Readers : GetStatusCall(r) \/ GetStatusLock(r) \/ GetStatusReturn(r)
    \/ TimePasses
    \/ ClockTicks(MaxTicks)

ScanSpec == LiveInit /\ [][ScanNext]_vars

\* getStatus() called by the threads of LiveReaders, and progress for it:
\* the thread that holds the status mutex goes on
\* to release it, a thread waiting for the mutex gets it when it is free
\* again and again, and getStatus() itself goes on.  Nothing is assumed of
\* the rest of the scan thread: a step's process() may never return.
ScanLiveNext ==
    \/ LiveIoNext
    \/ TimerExpire
    \/ CallerOps(LiveCallers, MaxLiveCalls)
    \/ \E r \in LiveReaders : GetStatusCall(r) \/ GetStatusLock(r) \/ GetStatusReturn(r)
    \/ TimePasses
    \/ ClockTicks(MaxTicks)

ScanLiveSpec ==
    /\ LiveInit
    /\ [][ScanLiveNext]_vars
    /\ WF_vars(\E t \in ThreadIds : ScanLocked(t))
    /\ \A c \in LiveCallers : WF_vars(AbortEnter(c))
    /\ \A r \in LiveReaders : SF_vars(GetStatusLock(r)) /\ WF_vars(GetStatusReturn(r))

\* ------------------------------------------- the next date-time (DateSpec)
\* what readSettings() returns for the settings whose start time is known
StoredOf(s) ==
    [BaseSettings EXCEPT !.updatePeriod = s.updatePeriod, !.startTime = s.startTime]

\* the handler of start() calls scheduleNextScan at some date and time of
\* day, with some update period and start time stored and cached
DateInit ==
    /\ \E period \in UpdatePeriods, start \in StartTimes :
         /\ dateSettings = [updatePeriod |-> period, startTime |-> start]
         /\ settings = RefreshScanSettings(DefaultSettings, << >>, StoredOf(dateSettings))[1]
         /\ scanSteps = RefreshScanSettings(DefaultSettings, << >>, StoredOf(dateSettings))[2]
    /\ \E date \in Dates, time \in TimesOfDay : dateNow = WDateTime(date, time)
    /\ dateNext = NullWDateTime
    /\ abortScanFlag = FALSE
    /\ curState = "NotScheduled"
    /\ nextScheduledScan = NullWDateTime
    /\ lastCompleteScanStats = 0
    /\ currentScanStepStats = "none"
    /\ controlMutex = NoOwner
    /\ ioWork = TRUE
    /\ ioQueue = << >>
    /\ timerWaits = << >>
    /\ io = [t \in ThreadIds |->
               IF t = 1 THEN [IdleThread EXCEPT !.pc = "sched", !.kind = "next"]
               ELSE IdleThread]
    /\ caller = [c \in Callers |-> IdleCaller]
    /\ events = << >>
    /\ stopped = FALSE
    /\ cutShort = FALSE
    /\ calls = 0
    /\ ScanParked
    /\ scanStepsBuild = FirstBuild(settings)
    /\ TxParked
    /\ OrphanParked
    /\ LibParked

\* scheduleNextScan() up to the call of scheduleScan: the settings are read
\* again, the switch gives nextScanDateTime, scheduleScan(false,
\* nextScanDateTime) arms the timer when it is valid
ComputeNextScan(t) ==
    /\ io[t].pc = "sched"
    /\ io[t].kind = "next"
    /\ settings' = RefreshScanSettings(settings, scanSteps, StoredOf(dateSettings))[1]
    /\ scanSteps' = RefreshScanSettings(settings, scanSteps, StoredOf(dateSettings))[2]
    /\ scanStepsBuild' = RefreshScanStepsBuild(settings, scanStepsBuild, StoredOf(dateSettings))
    /\ dateNext' = NextScanDateTimeAt(dateNow, dateSettings)
    /\ IF dateNext'.valid
       THEN /\ ioQueue' = ScheduleScanQueue(ioQueue, timerWaits)
            /\ timerWaits' = ScheduleScanWaits(timerWaits, ScheduleNextScanForce, dateNext')
       ELSE UNCHANGED << ioQueue, timerWaits >>
    /\ io' = [io EXCEPT ![t].pc = "sched_lock", ![t].next = dateNext',
                        ![t].built = RefreshBuilds(settings, StoredOf(dateSettings))]
    /\ events' = << >>
    /\ UNCHANGED << abortScanFlag, statusVars, controlMutex, ioWork, caller,
                    stopped, cutShort, calls, statusWriter, statusReaders,
                    reader, sinceLastEmit, abortedInScan, txVars, orphanVars,
                    libVars, dateNow, dateSettings >>

\* scheduleNextScan(), statement by statement, to its return
DateNext ==
    \E t \in ThreadIds :
        \/ ComputeNextScan(t)
        \/ StatusLock(t)
        \/ ScheduleSetState(t)
        \/ ScheduleSetNextScheduled(t)
        \/ ScheduleEmit(t)

DateSpec == DateInit /\ [][DateNext]_vars

\* ------------------------------- refreshScanSettings (RefreshSpec)
\* the io thread about to call refreshScanSettings(): in scan(), or in
\* scheduleNextScan() run by a posted handler
RefreshingThread(site) ==
    IF site = "scan"
    THEN [IdleThread EXCEPT !.pc = "refresh", !.kind = "scan", !.stats = 1]
    ELSE [IdleThread EXCEPT !.pc = "sched", !.kind = "next"]

\* refreshScanSettings() is about to be called with any settings cached and
\* any settings stored, the two differing in any fields (in
\* MaxChangedFields of them at most)
RefreshInit ==
    /\ settings \in AllSettings
    /\ storedSettings \in AllSettings
    /\ Cardinality(DiffFields(settings, storedSettings)) <= MaxChangedFields
    /\ scanSteps = BuildScanSteps
    /\ scanStepsBuild = FirstBuild(settings)
    /\ \E site \in {"scan", "next"} :
         /\ io = [t \in ThreadIds |-> IF t = 1 THEN RefreshingThread(site) ELSE IdleThread]
         /\ curState = IF site = "scan" THEN "InProgress" ELSE "NotScheduled"
    /\ abortScanFlag = FALSE
    /\ nextScheduledScan = NullWDateTime
    /\ lastCompleteScanStats = 0
    /\ currentScanStepStats = "none"
    /\ timerWaits = << >>
    /\ events = << >>
    /\ controlMutex = NoOwner
    /\ ioWork = TRUE
    /\ ioQueue = << >>
    /\ caller = [c \in Callers |-> IdleCaller]
    /\ stopped = FALSE
    /\ cutShort = FALSE
    /\ calls = 0
    /\ ScanParked
    /\ dateNow = ClockStart
    /\ DateIdle
    /\ TxParked
    /\ OrphanParked
    /\ StreamParked
    /\ TlsParked
    /\ QueueParked
    /\ fsFiles = [p \in Paths |-> NoFile]
    /\ tracks = [p \in Paths |-> NoTrack]
    /\ writes = 0
    /\ fsUnchanged = FALSE
    /\ scanContext = NoScanContext

\* the call, at either site, reads the store
RefreshNext ==
    \E t \in ThreadIds :
        \/ ScanRefresh(t, storedSettings)
        \/ ScanScheduleNext(t, storedSettings)

RefreshSpec == RefreshInit /\ [][RefreshNext]_vars

\* ----------------------------------------------- transactions (TxSpec)
\* WriteTransaction: its std::unique_lock member locks the mutex, which the
\* thread that holds it may lock again
CreateWriteTransaction(s) ==
    /\ Len(txOpen[s]) < MaxNested
    /\ dbMutexOwner \in {NoOwner, s}
    /\ dbMutexOwner' = s
    /\ dbMutexCount' = dbMutexCount + 1
    /\ txOpen' = [txOpen EXCEPT ![s] = Append(@, "write")]
    /\ UNCHANGED << scannerVars, scanVars, dateVars, orphanVars, libVars >>

\* ReadTransaction: it has no lock member, and is given no mutex
CreateReadTransaction(s) ==
    /\ Len(txOpen[s]) < MaxNested
    /\ txOpen' = [txOpen EXCEPT ![s] = Append(@, "read")]
    /\ UNCHANGED << scannerVars, scanVars, dateVars, orphanVars, libVars,
                    dbMutexOwner, dbMutexCount >>

\* the innermost transaction of the session goes out of scope: a
\* WriteTransaction's lock member unlocks
DestroyTransaction(s) ==
    /\ txOpen[s] # << >>
    /\ txOpen' = [txOpen EXCEPT ![s] = SubSeq(@, 1, Len(@) - 1)]
    /\ IF txOpen[s][Len(txOpen[s])] = "write"
       THEN /\ dbMutexCount' = dbMutexCount - 1
            /\ dbMutexOwner' = IF dbMutexCount = 1 THEN NoOwner ELSE dbMutexOwner
       ELSE UNCHANGED << dbMutexOwner, dbMutexCount >>
    /\ UNCHANGED << scannerVars, scanVars, dateVars, orphanVars, libVars >>

TxInit == ScannerParked /\ TxParked /\ OrphanParked /\ LibParked

TxNext ==
    \E s \in Sessions :
        \/ CreateWriteTransaction(s)
        \/ CreateReadTransaction(s)
        \/ DestroyTransaction(s)

TxSpec == TxInit /\ [][TxNext]_vars

\* --------------------------------------------- orphan queries (OrphanSpec)
\* the catalogs tried: some artists and releases, tracks with a release or
\* none, links between the tracks and the artists that exist
Catalogs ==
    { [artist |-> as, release |-> rs, track |-> ts, track_artist_link |-> ls] :
        as \in SUBSET ArtistIds, rs \in SUBSET ReleaseIds,
        ts \in SUBSET [id : TrackIds, release_id : ReleaseIds \cup {Null}],
        ls \in SUBSET [track_id : TrackIds, artist_id : ArtistIds] }

\* the keys hold: one row per track id, releases and link ends that exist
WellFormed(d) ==
    /\ \A t, u \in d.track : t.id = u.id => t = u
    /\ \A t \in d.track : t.release_id \in d.release \cup {Null}
    /\ \A l \in d.track_artist_link :
          /\ l.artist_id \in d.artist
          /\ \E t \in d.track : t.id = l.track_id

\* "SELECT 1 FROM track t INNER JOIN track_artist_link t_a_l
\*  ON t_a_l.artist_id = a.id WHERE t.id = t_a_l.track_id"
ArtistTrackRows(d, a) ==
    { row \in d.track \X d.track_artist_link :
        row[2].artist_id = a /\ row[1].id = row[2].track_id }

\* Artist::findOrphanIds: "SELECT DISTINCT a.id FROM artist a WHERE NOT
\* EXISTS(...)": the number of rows returned for each artist
ArtistFindOrphanIds(d) ==
    [a \in d.artist |-> IF ArtistTrackRows(d, a) = {} THEN 1 ELSE 0]

\* (release r INNER JOIN Track t)
ReleaseInnerJoin(d) ==
    { row \in [r : d.release, t : TrackIds] :
        \E u \in d.track : u.id = row.t /\ u.release_id = row.r }
\* "release r LEFT OUTER JOIN Track t ON r.id = t.release_id": a row for
\* each track of the release, a row of NULLs for a release without tracks
ReleaseLeftJoin(d) ==
    { row \in [r : d.release, t : TrackIds \cup {Null}] :
        IF row.t = Null
        THEN \A u \in d.track : u.release_id # row.r
        ELSE \E u \in d.track : u.id = row.t /\ u.release_id = row.r }

\* Release::findOrphanIds: "select r.id from ... WHERE t.id IS NULL": the
\* number of rows returned for each release
ReleaseFindOrphanIds(d) ==
    [r \in d.release |->
        Cardinality({row \in ReleaseLeftJoin(d) : row.r = r /\ row.t = Null})]

OrphanInit ==
    /\ ScannerParked
    /\ TxParked
    /\ LibParked
    /\ db \in {d \in Catalogs : WellFormed(d)}
    /\ orphanArtists = << >>
    /\ orphanReleases = << >>

FindOrphanArtistIds ==
    /\ orphanArtists' = ArtistFindOrphanIds(db)
    /\ UNCHANGED << scannerVars, scanVars, dateVars, txVars, libVars, db,
                    orphanReleases >>

FindOrphanReleaseIds ==
    /\ orphanReleases' = ReleaseFindOrphanIds(db)
    /\ UNCHANGED << scannerVars, scanVars, dateVars, txVars, libVars, db,
                    orphanArtists >>

OrphanNext == FindOrphanArtistIds \/ FindOrphanReleaseIds

OrphanSpec == OrphanInit /\ [][OrphanNext]_vars

\* ------------------------------------- two scans in a row (IdemSpec)
\* (the steps of the pipeline are modelled from their description: the
\* classes ScanStepDiscoverFiles, ScanStepScanFiles and
\* ScanStepRemoveOrphanDbFiles that scan() runs are not in the sources read)

\* Discover Files: the paths that have a file on disk
DiscoverFiles(fs) == {p \in Paths : fs[p] # NoFile}

\* (a Track row written with the version of the first settings)
ExtractedTrackStaleVersion(file, version) == [mtime |-> file.mtime, version |-> 0]

\* Scan Files, on success: the Track row carries the file's last-write time
\* and the version of the settings of this scan
ExtractedTrack(file, version) == [mtime |-> file.mtime, version |-> version]

\* Scan Files, for one discovered file: a skip when the Track at that path
\* has the file's last-write time, forceRescan is false and the version has
\* not changed; otherwise the tags are extracted: an error when that fails
\* (the file cannot be parsed, or is no longer there), an addition when
\* there was no Track, an update when there was one
ScanFileOutcome(track, file, forceRescan, version) ==
    IF /\ track # NoTrack
       /\ track.mtime = file.mtime
       /\ ~forceRescan
       /\ track.version = version
    THEN "skip"
    ELSE IF ~file.parsable THEN "error"
    ELSE IF track = NoTrack THEN "addition"
    ELSE "update"

\* the ScanStats counter of an outcome
CounterOf ==
    [skip |-> "skips", error |-> "errors", addition |-> "additions",
     update |-> "updates"]

\* Remove Orphan DB Files: the Track rows whose file no longer exists go
RemoveOrphanDbFiles(trs, fs) ==
    [p \in Paths |-> IF fs[p] = NoFile THEN NoTrack ELSE trs[p]]

\* the Track rows Remove Orphan DB Files removes
OrphanTracks(trs, fs) == {p \in Paths : trs[p] # NoTrack /\ fs[p] = NoFile}

\* the state when the constructor returns, the library root holding any
\* files (all with the first last-write time: only whether two times are
\* the same is ever looked at), none of them scanned yet, and the store
\* holding the first scan version (only whether a Track's version is the
\* store's is ever looked at, and no Track exists yet)
IdemInit ==
    /\ storedSettings \in {s \in IdemStoredSettings : s.scanVersion = 0}
    /\ settings = RefreshScanSettings(DefaultSettings, << >>, storedSettings)[1]
    /\ scanSteps = RefreshScanSettings(DefaultSettings, << >>, storedSettings)[2]
    /\ scanStepsBuild = FirstBuild(settings)
    /\ abortScanFlag = FALSE
    /\ curState = "NotScheduled"
    /\ nextScheduledScan = NullWDateTime
    /\ lastCompleteScanStats = 0
    /\ currentScanStepStats = "none"
    /\ controlMutex = NoOwner
    /\ ioWork = TRUE
    /\ ioQueue = << PostedNext >>
    /\ timerWaits = << >>
    /\ io = [t \in ThreadIds |-> IdleThread]
    /\ caller = [c \in Callers |-> IdleCaller]
    /\ events = << >>
    /\ stopped = FALSE
    /\ cutShort = FALSE
    /\ calls = 0
    /\ ScanParked
    /\ dateNow = ClockStart
    /\ DateIdle
    /\ TxParked
    /\ OrphanParked
    /\ StreamParked
    /\ TlsParked
    /\ QueueParked
    /\ fsFiles \in [Paths -> {f \in Files : f.mtime = 1} \cup {NoFile}]
    /\ tracks = [p \in Paths |-> NoTrack]
    /\ writes = 0
    /\ fsUnchanged = FALSE
    /\ scanContext = NoScanContext

\* what no statement of the scan thread changes, the files and the scan
\* context apart
scanClientVars == << abortScanFlag, controlMutex, ioWork, stopped, calls,
                     statusReaders, reader, dateVars, txVars, orphanVars,
                     streamVars, tlsVars, queueVars >>

\* what a step's process() leaves alone when it returns
stepReturnQuiet == << scanClientVars, settingsVars, scanStepsBuild, statusVars,
                      ioQueue, timerWaits, caller, cutShort, statusWriter,
                      sinceLastEmit, abortedInScan, fsFiles, storedSettings, writes, fsUnchanged >>

\* what a step's process() leaves alone until it returns
stepQuiet == << stepReturnQuiet, io >>

\* what the changes on disk and in the settings leave alone
idemQuiet == << scanClientVars, settingsVars, scanStepsBuild, statusVars,
                ioQueue, timerWaits, io, caller, cutShort, statusWriter,
                sinceLastEmit, abortedInScan >>

\* the step the loop of scan() is at on thread t, inside its process()
InProcess(t, name) ==
    /\ io[t].pc = "process"
    /\ scanSteps[io[t].step] = name

\* the thread is back from the step's process()
Returned(threads, t) == [threads EXCEPT ![t].pc = "notify_lock", ![t].from = "end"]

\* scan(): refreshScanSettings() reads the store and builds the steps anew
\* when it differs from the cached copy; the scan context with its new
\* statistics and the version of the settings now cached; then the loop is
\* entered
IdemScanStart(t) ==
    /\ io[t].pc = "refresh"
    /\ settings' = RefreshScanSettings(settings, scanSteps, storedSettings)[1]
    /\ scanSteps' = RefreshScanSettings(settings, scanSteps, storedSettings)[2]
    /\ scanStepsBuild' = RefreshScanStepsBuild(settings, scanStepsBuild, storedSettings)
    /\ io' = [io EXCEPT ![t].pc = "notify_lock",
                        ![t].step = 1,
                        ![t].from = "begin",
                        ![t].stats = FreshStats(lastCompleteScanStats),
                        ![t].built = RefreshBuilds(settings, storedSettings)]
    /\ scanContext' = [active |-> TRUE, forceRescan |-> io[t].force,
                       version |-> settings'.scanVersion, stats |-> NoStats,
                       found |-> {}, clean |-> TRUE]
    /\ events' = << >>
    /\ UNCHANGED << scanClientVars, statusVars, ioQueue, timerWaits, caller,
                    cutShort, statusWriter, sinceLastEmit, abortedInScan,
                    fsFiles, tracks, storedSettings, writes,
                    fsUnchanged >>

\* Discover Files runs: the files on disk now, or nothing when the step
\* finds the abort flag set and returns early
IdemDiscover(t) ==
    /\ InProcess(t, "DiscoverFiles")
    /\ scanContext' = [scanContext EXCEPT
                         !.found = IF abortScanFlag THEN {} ELSE DiscoverFiles(fsFiles)]
    /\ io' = Returned(io, t)
    /\ events' = << >>
    /\ UNCHANGED << stepReturnQuiet, tracks >>

\* Scan Files handles one discovered file in its own transaction (an error
\* leaves the prior Track untouched)
IdemScanFile(t, p) ==
    /\ InProcess(t, "ScanFiles")
    /\ ~abortScanFlag
    /\ p \in scanContext.found
    /\ LET outcome == ScanFileOutcome(tracks[p], fsFiles[p],
                                      scanContext.forceRescan, scanContext.version)
       IN  /\ tracks' = IF outcome \in {"addition", "update"}
                        THEN [tracks EXCEPT ![p] =
                                 ExtractedTrack(fsFiles[p], scanContext.version)]
                        ELSE tracks
           /\ scanContext' = [scanContext EXCEPT
                                !.found = @ \ {p},
                                !.stats[CounterOf[outcome]] = @ + 1]
    /\ events' = << >>
    /\ UNCHANGED stepQuiet

\* Scan Files returns: no file is left, or it finds the abort flag set
IdemScanFilesReturn(t) ==
    /\ InProcess(t, "ScanFiles")
    /\ abortScanFlag \/ scanContext.found = {}
    /\ scanContext' = [scanContext EXCEPT !.found = {}]
    /\ io' = Returned(io, t)
    /\ events' = << >>
    /\ UNCHANGED << stepReturnQuiet, tracks >>

\* Remove Orphan DB Files runs (nothing is removed when the step finds the
\* abort flag set)
IdemRemoveOrphans(t) ==
    /\ InProcess(t, "RemoveOrphanDbFiles")
    /\ IF abortScanFlag
       THEN UNCHANGED << tracks, scanContext >>
       ELSE /\ tracks' = RemoveOrphanDbFiles(tracks, fsFiles)
            /\ scanContext' = [scanContext EXCEPT
                                 !.stats.deletions = Cardinality(OrphanTracks(tracks, fsFiles))]
    /\ io' = Returned(io, t)
    /\ events' = << >>
    /\ UNCHANGED stepReturnQuiet

\* Compute Cluster Stats and Check Duplicated DB Files run: they write no
\* Track and count none of the five outcomes
IdemReportingStep(t) ==
    /\ InProcess(t, "ComputeClusterStats") \/ InProcess(t, "CheckDuplicatedDbFiles")
    /\ io' = Returned(io, t)
    /\ events' = << >>
    /\ UNCHANGED << stepReturnQuiet, tracks, scanContext >>

\* a step's process() raises a failure: it leaves scan(), whose context is
\* gone, and the handler, which have no handler for it
IdemStepThrows(t) ==
    /\ io[t].pc = "process"
    /\ io' = [io EXCEPT ![t].pc = "thrown"]
    /\ abortedInScan' = FALSE
    /\ scanContext' = NoScanContext
    /\ events' = << >>
    /\ UNCHANGED << scanClientVars, settingsVars, scanStepsBuild, statusVars,
                    ioQueue, timerWaits, caller, cutShort, statusWriter,
                    sinceLastEmit, fsFiles, tracks, storedSettings, writes,
                    fsUnchanged >>

\* scan(), not aborted: the statistics are published, the block ends
IdemScanPublish(t) ==
    /\ io[t].pc = "publish_set"
    /\ lastCompleteScanStats' = ScanCompleteStats(lastCompleteScanStats, io[t].stats)
    /\ currentScanStepStats' = StepStatsReset(currentScanStepStats)
    /\ statusWriter' = NoOwner
    /\ io' = [io EXCEPT ![t].pc = "sched"]
    /\ fsUnchanged' = scanContext.clean
    /\ scanContext' = NoScanContext
    /\ events' = << >>
    /\ UNCHANGED << scanClientVars, settingsVars, scanStepsBuild, ioQueue,
                    timerWaits, caller, cutShort, sinceLastEmit, abortedInScan,
                    curState, nextScheduledScan, fsFiles, tracks, storedSettings, writes >>

\* scan(), aborted: NotScheduled, the step statistics reset; scan() returns
\* and its context is gone
IdemScanAborted(t) ==
    /\ io[t].pc = "aborted_set"
    /\ curState' = "NotScheduled"
    /\ currentScanStepStats' = StepStatsReset(currentScanStepStats)
    /\ lastCompleteScanStats' = ScanAbortedStats(lastCompleteScanStats, io[t].stats)
    /\ statusWriter' = NoOwner
    /\ io' = [io EXCEPT ![t] = IdleThread]
    /\ cutShort' = \E c \in Callers : caller[c].pc \in AbortingPcs
    /\ caller' = NoteScanEnd(caller, "aborted")
    /\ abortedInScan' = FALSE
    /\ scanContext' = NoScanContext
    /\ events' = << >>
    /\ UNCHANGED << scanClientVars, settingsVars, scanStepsBuild, nextScheduledScan,
                    ioQueue, timerWaits, sinceLastEmit, fsFiles, tracks,
                    storedSettings, writes, fsUnchanged >>

\* something changes on disk or in the settings: the scan under way and the
\* last one completed are no longer followed by no change
Changed(context) == [context EXCEPT !.clean = FALSE]

\* a file is written: its last-write time or its content differs
FsWrite(p, file) ==
    /\ writes < MaxWrites
    /\ file # fsFiles[p]
    /\ writes' = writes + 1
    /\ fsFiles' = [fsFiles EXCEPT ![p] = file]
    /\ fsUnchanged' = FALSE
    /\ scanContext' = Changed(scanContext)
    /\ events' = << >>
    /\ UNCHANGED << idemQuiet, tracks, storedSettings >>

\* a file is deleted
FsRemove(p) ==
    /\ writes < MaxWrites
    /\ fsFiles[p] # NoFile
    /\ writes' = writes + 1
    /\ fsFiles' = [fsFiles EXCEPT ![p] = NoFile]
    /\ fsUnchanged' = FALSE
    /\ scanContext' = Changed(scanContext)
    /\ events' = << >>
    /\ UNCHANGED << idemQuiet, tracks, storedSettings >>

\* the stored settings are written: some fields change, and the version of
\* the scan settings stays or goes up
ChangeScanSettings(new) ==
    /\ writes < MaxWrites
    /\ new # storedSettings
    /\ new.scanVersion >= storedSettings.scanVersion
    /\ writes' = writes + 1
    /\ storedSettings' = new
    /\ fsUnchanged' = FALSE
    /\ scanContext' = Changed(scanContext)
    /\ events' = << >>
    /\ UNCHANGED << idemQuiet, fsFiles, tracks >>

\* the statements of the scan thread that are the same whatever the steps do
IdemScanStatement(t) ==
    \/ RunPosted(t)
    \/ DoScheduleScan(t)
    \/ ScanTimerCb(t)
    \/ StatusLock(t)
    \/ ScanSetInProgress(t)
    \/ ScanResetNextScheduled(t)
    \/ NotifySet(t)
    \/ NotifyEmit(t)
    \/ ProcessCallback(t)
    \/ ScanAnalyze(t)
    \/ ScanScheduleNext(t, storedSettings)
    \/ ScheduleSetState(t)
    \/ ScheduleSetNextScheduled(t)
    \/ ScheduleEmit(t)
    \/ ScanEmitComplete(t)
    \/ ThreadExit(t)

\* the statements of the scan thread that work on the files and the context
IdemStep(t) ==
    \/ IdemScanStart(t)
    \/ IdemDiscover(t)
    \/ \E p \in Paths : IdemScanFile(t, p)
    \/ IdemScanFilesReturn(t)
    \/ IdemRemoveOrphans(t)
    \/ IdemReportingStep(t)
    \/ IdemStepThrows(t)
    \/ IdemScanPublish(t)
    \/ IdemScanAborted(t)

\* the service with a client thread that calls its control operations, its
\* io thread, the timer and the clock, over files and settings that change
IdemNext ==
    \/ \E t \in ThreadIds : IdemScanStatement(t) \/ IdemStep(t)
    \/ TimerExpire
    \/ CallerOps(LiveCallers, MaxIdemCalls)
    \/ TimePasses
    \/ ClockTicks(MaxTicks)
    \/ \E p \in Paths, file \in Files : FsWrite(p, file)
    \/ \E p \in Paths : FsRemove(p)
    \/ \E new \in IdemStoredSettings : ChangeScanSettings(new)

IdemSpec == IdemInit /\ [][IdemNext]_vars

\* ------------------------------- the stream parameters (StreamSpec)
\* subsonicStreamFormatToAvOutputFormat: the "format" parameter, compared
\* without regard to case (the values tried are in lower case)
SubsonicStreamFormatToAvOutputFormat(format) ==
    CASE format = "mp3" -> "MP3"
      [] format = "opus" -> "OGG_OPUS"
      [] format = "vorbis" -> "OGG_VORBIS"
      [] OTHER -> NoFormat

\* userTranscodeFormatToAvFormat
UserTranscodeFormatToAvFormat(format) ==
    CASE format = "MP3" -> "MP3"
      [] format = "OGG_OPUS" -> "OGG_OPUS"
      [] format = "MATROSKA_OPUS" -> "MATROSKA_OPUS"
      [] format = "OGG_VORBIS" -> "OGG_VORBIS"
      [] format = "WEBM_VORBIS" -> "WEBM_VORBIS"
      [] OTHER -> "OGG_OPUS"

\* isCodecCompatibleWithOutputFormat
IsCodecCompatibleWithOutputFormat(codec, outputFormat) ==
    CASE outputFormat = "MP3" -> codec = "MP3"
      [] outputFormat \in {"OGG_OPUS", "MATROSKA_OPUS"} -> codec = "OPUS"
      [] outputFormat \in {"OGG_VORBIS", "WEBM_VORBIS"} -> codec = "VORBIS"
      [] OTHER -> TRUE

\* std::min<std::size_t>
Min(a, b) == IF a < b THEN a ELSE b

\* the bitrate taken when the branch of the compatible format has set none
DefaultBitrateLimited(defaultBitrate, maxBitRate) == Min(defaultBitrate, maxBitRate)

NoTranscoding == [NoStreamParameters EXCEPT !.returned = TRUE]
DataNotFound == [NoStreamParameters EXCEPT !.thrown = TRUE]

\* getStreamParameters, for a user and a track that exist
GetStreamParameters(req) ==
    LET maxBitRate == req.maxBitRate * 1000
        fromParameter == SubsonicStreamFormatToAvOutputFormat(req.format)
        requestedFormat ==
            IF fromParameter = NoFormat /\ req.enableTranscodingByDefault
            THEN UserTranscodeFormatToAvFormat(req.defaultFormat)
            ELSE fromParameter
        withinLimit == maxBitRate = 0 \/ req.trackBitrate <= maxBitRate
        compatible == IsCodecCompatibleWithOutputFormat(req.codec, requestedFormat)
        bitrate == IF requestedFormat # NoFormat /\ compatible THEN maxBitRate ELSE 0
        outputFormat == IF requestedFormat = NoFormat
                        THEN UserTranscodeFormatToAvFormat(req.defaultFormat)
                        ELSE requestedFormat
    IN  IF req.format = "raw" THEN NoTranscoding
        ELSE IF requestedFormat = NoFormat /\ withinLimit THEN NoTranscoding
        ELSE IF requestedFormat # NoFormat /\ req.codec = "NONE" THEN DataNotFound
        ELSE IF requestedFormat # NoFormat /\ compatible /\ withinLimit THEN NoTranscoding
        ELSE [returned |-> TRUE, thrown |-> FALSE, transcoding |-> TRUE,
              format |-> outputFormat,
              bitrate |-> IF bitrate = 0
                          THEN DefaultBitrateLimited(req.defaultBitrate, maxBitRate)
                          ELSE bitrate]

\* a stream request for an existing track by an existing user
StreamInit ==
    /\ ScannerParked
    /\ TxParked
    /\ OrphanParked
    /\ IdemParked
    /\ TlsParked
    /\ QueueParked
    /\ streamRequest \in [maxBitRate : MaxBitRates, format : StreamFormats,
                          enableTranscodingByDefault : BOOLEAN,
                          defaultFormat : TranscodingOutputFormats,
                          defaultBitrate : AllowedAudioBitrates,
                          trackBitrate : TrackBitrates, codec : DecodingCodecs]
    /\ streamParameters = NoStreamParameters

\* the request is handled
HandleStream ==
    /\ streamParameters' = GetStreamParameters(streamRequest)
    /\ UNCHANGED << scannerVars, scanVars, dateVars, txVars, orphanVars,
                    idemVars, tlsVars, queueVars, streamRequest >>

StreamNext == HandleStream

StreamSpec == StreamInit /\ [][StreamNext]_vars

\* ------------------------------- the thread-local sessions (TlsSpec)
\* std::make_unique<Session>(*this): a session of the Db, made for the thread
NewSession(d, t) == [db |-> d, thread |-> t]

TlsInit ==
    /\ ScannerParked
    /\ TxParked
    /\ OrphanParked
    /\ IdemParked
    /\ StreamParked
    /\ TlsParked
    /\ QueueParked

\* Db::getTLSSession on Db d, called by thread t: "if (!tlsSession)"; the
\* session is made and the thread's pointer set, or the pointer is returned
GetTLSSession(t, d) ==
    /\ tlsCall[t].pc = "idle"
    /\ IF tlsSession[t] = NullSession
       THEN /\ tlsSession' = [tlsSession EXCEPT ![t] = NewSession(d, t)]
            /\ tlsCall' = [tlsCall EXCEPT ![t] = [pc |-> "lock", db |-> d]]
            /\ UNCHANGED tlsReturned
       ELSE /\ tlsReturned' = [tlsReturned EXCEPT ![t] =
                                 [db |-> d, session |-> tlsSession[t]]]
            /\ UNCHANGED << tlsSession, tlsCall >>
    /\ UNCHANGED << scannerVars, scanVars, dateVars, txVars, orphanVars,
                    idemVars, streamVars, queueVars, tlsSessions, tlsSessionsMutex >>

\* std::scoped_lock lock{ _tlsSessionsMutex }
TlsSessionsLock(t) ==
    /\ tlsCall[t].pc = "lock"
    /\ tlsSessionsMutex[tlsCall[t].db] = 0
    /\ tlsSessionsMutex' = [tlsSessionsMutex EXCEPT ![tlsCall[t].db] = t]
    /\ tlsCall' = [tlsCall EXCEPT ![t].pc = "push"]
    /\ UNCHANGED << scannerVars, scanVars, dateVars, txVars, orphanVars,
                    idemVars, streamVars, queueVars, tlsSession, tlsSessions,
                    tlsReturned >>

\* _tlsSessions.push_back(std::move(newSession)); the lock is released and
\* the session returned
TlsSessionsPushBack(t) ==
    /\ tlsCall[t].pc = "push"
    /\ tlsSessions' = [tlsSessions EXCEPT ![tlsCall[t].db] = Append(@, tlsSession[t])]
    /\ tlsSessionsMutex' = [tlsSessionsMutex EXCEPT ![tlsCall[t].db] = 0]
    /\ tlsReturned' = [tlsReturned EXCEPT ![t] =
                         [db |-> tlsCall[t].db, session |-> tlsSession[t]]]
    /\ tlsCall' = [tlsCall EXCEPT ![t] = NoCall]
    /\ UNCHANGED << scannerVars, scanVars, dateVars, txVars, orphanVars,
                    idemVars, streamVars, queueVars, tlsSession >>

TlsNext ==
    \E t \in DbThreads :
        \/ \E d \in Dbs : GetTLSSession(t, d)
        \/ TlsSessionsLock(t)
        \/ TlsSessionsPushBack(t)

TlsSpec == TlsInit /\ [][TlsNext]_vars

\* ----------------------------------------- the play queue (QueueSpec)
otherVars == << scannerVars, scanVars, dateVars, txVars, orphanVars,
                idemVars, streamVars, tlsVars >>

\* the playlists the store can hold: entries, each once
Playlists ==
    {p \in UNION {[1..n -> EntryIds] : n \in 0..MaxEntries} :
        \A i, j \in DOMAIN p : p[i] = p[j] => i = j}

\* the vectors of tracks handed to addTracks and playTracks: entries not
\* in the queue yet
TrackLists(container) ==
    {l \in UNION {[1..n -> EntryIds] : n \in 0..MaxAdded} :
        /\ \A i, j \in DOMAIN l : l[i] = l[j] => i = j
        /\ \A i \in DOMAIN l, j \in DOMAIN container : l[i] # container[j]}

\* the view is constructed: _trackPos is the position stored for the user
\* (whatever the stored playlist holds), addSome() fills the container with
\* the entries of the stored playlist
QueueInit ==
    /\ ScannerParked
    /\ TxParked
    /\ OrphanParked
    /\ IdemParked
    /\ StreamParked
    /\ TlsParked
    /\ entriesContainer \in Playlists
    /\ trackPos \in 0..MaxEntries

\* the sequence without its element at index pos (counted from 0)
RemoveWidget(container, pos) ==
    SubSeq(container, 1, pos) \o SubSeq(container, pos + 2, Len(container))

\* PlayQueue::stop: _trackPos.reset()
Stop == NoTrackPos

\* PlayQueue::play(pos): out of range stops playing
Play(container, pos) == IF pos >= Len(container) THEN Stop ELSE pos

\* PlayQueue::playPrevious
PlayPrevious(container, cur) ==
    IF cur = NoTrackPos THEN cur
    ELSE IF cur = 0 THEN Stop
    ELSE Play(container, cur - 1)

\* PlayQueue::playNext
PlayNext(container, cur) ==
    IF cur = NoTrackPos THEN Play(container, 0) ELSE Play(container, cur + 1)

\* the delete button's handler: the position after the removal of the entry
\* at index pos
DeleteTrackPos(cur, pos) ==
    IF cur # NoTrackPos /\ pos > 0 /\ cur >= pos THEN cur - 1 ELSE cur

\* addTracks(added): an entry is made for each track, addSome() appends
\* their widgets
AddTracks(added) ==
    /\ Len(entriesContainer) + Len(added) <= MaxEntries
    /\ entriesContainer' = entriesContainer \o added
    /\ UNCHANGED << otherVars, trackPos >>

\* playTracks(added): the playlist and the container are cleared, the
\* tracks added, the first one played (an empty vector stops playing)
PlayTracks(added) ==
    /\ entriesContainer' = added
    /\ trackPos' = Play(entriesContainer', 0)
    /\ UNCHANGED otherVars

\* the play button of the entry at index pos is clicked
ClickPlay(pos) ==
    /\ trackPos' = Play(entriesContainer, pos)
    /\ UNCHANGED << otherVars, entriesContainer >>

\* the player asks for the previous or the next track, or stops
ClickPrevious ==
    /\ trackPos' = PlayPrevious(entriesContainer, trackPos)
    /\ UNCHANGED << otherVars, entriesContainer >>

ClickNext ==
    /\ trackPos' = PlayNext(entriesContainer, trackPos)
    /\ UNCHANGED << otherVars, entriesContainer >>

ClickStop ==
    /\ trackPos # NoTrackPos
    /\ trackPos' = Stop
    /\ UNCHANGED << otherVars, entriesContainer >>

\* the delete button of the entry at index pos is clicked: the entry is
\* removed from the playlist, the position adjusted, the widget removed
ClickDelete(pos) ==
    /\ trackPos' = DeleteTrackPos(trackPos, pos)
    /\ entriesContainer' = RemoveWidget(entriesContainer, pos)
    /\ UNCHANGED otherVars

\* the clear button is clicked
ClickClear ==
    /\ entriesContainer # << >>
    /\ entriesContainer' = << >>
    /\ UNCHANGED << otherVars, trackPos >>

QueueNext ==
    \/ \E added \in TrackLists(entriesContainer) : AddTracks(added)
    \/ \E added \in TrackLists(<< >>) : PlayTracks(added)
    \/ \E pos \in 0..(Len(entriesContainer) - 1) : ClickPlay(pos)
    \/ \E pos \in 0..(Len(entriesContainer) - 1) : ClickDelete(pos)
    \/ ClickPrevious
    \/ ClickNext
    \/ ClickStop
    \/ ClickClear

QueueSpec == QueueInit /\ [][QueueNext]_vars

\* ---------------------------------------------------------------- claims
Emitted(seq, e) == \E i \in 1..Len(seq) : seq[i] = e
\* the io threads inside the scan body, from scanStarted to its return
Scanning == {t \in ThreadIds : io[t].kind = "scan" /\ io[t].pc # "thrown"}
\* the statements of abortScan()
AbortScanPcs ==
    {"abort_status", "abort_lock", "abort_cancel", "abort_stop", "abort_join",
     "abort_emit"}
InAbortScan(c) == caller[c].pc \in AbortScanPcs

\* C1: whatever the client threads call and whenever the timer expires, at
\* most one execution of the scan body is in progress.
C1_OneScanAtATime == Cardinality(Scanning) <= 1

\* a scan body is inside a step's process() while a client thread waits in
\* stop() for the io thread and abortScan(), called on another thread, waits
\* for the control mutex
C1_Witness ==
    /\ \E t \in Scanning : io[t].pc = "process"
    /\ caller["main"].pc = "stop_join"
    /\ caller["ui"].pc = "abort_lock"

\* the order of the pipeline the specification gives
PipelineOrder ==
    << "DiscoverFiles", "ScanFiles", "RemoveOrphanDbFiles",
       "ComputeClusterStats", "CheckDuplicatedDbFiles" >>

\* the statements of scan() before its loop
BeforeLoopPcs == {"started_lock", "started_set", "started_next", "refresh"}

\* C2: every scan enters the steps in the pipeline order, one after the
\* other's return: the steps entered so far are a prefix of the order, the
\* step whose process() runs is the last one entered and the one the loop is
\* at, and the scan is past the loop only when all five were entered.
C2_StepsInOrder ==
    \A t \in Scanning :
        /\ Len(io[t].log) <= Len(PipelineOrder)
        /\ io[t].log = SubSeq(PipelineOrder, 1, Len(io[t].log))
        /\ io[t].pc = "process" =>
              /\ Len(io[t].log) = io[t].step
              /\ scanSteps[io[t].step] = PipelineOrder[io[t].step]
        /\ io[t].pc = "notify_lock" /\ io[t].from = "begin" =>
              Len(io[t].log) = io[t].step - 1
        /\ (io[t].step = 0 /\ io[t].pc \notin BeforeLoopPcs) =>
              io[t].log = PipelineOrder

\* a scan has run all its steps, after an earlier scan completed
C2_Witness ==
    \E t \in Scanning :
        /\ io[t].pc = "analyze"
        /\ io[t].log = PipelineOrder
        /\ lastCompleteScanStats # 0

\* C3 (as claimed): a scan that was in progress when requestImmediateScan
\* was called does not complete normally: when the request's abortScan()
\* returns and the request goes on to post its scan handler, the scan that
\* abortScan() saw running has not ended by completion.
C3_RunningScanAborted ==
    [][\A c \in Callers :
          ( /\ caller[c].pc = "abort_emit"
            /\ caller'[c].pc = "post"
            /\ caller'[c].post.kind = "imm"
            /\ caller[c].isRunning )
          => caller[c].scanEnd # "complete"]_vars

\* C4 (as claimed): abortScan() emits scanAborted exactly when a scan was cut
\* short (ended on its abort branch) while this abortScan() held the flag.
C4_AbortedIffCutShort ==
    [][\A c \in Callers :
          (caller[c].pc = "abort_emit" /\ caller'[c].pc # "abort_emit")
              => (Emitted(events', "scanAborted") <=> cutShort)]_vars

\* the step in which thread t takes the abort branch at the end of scan()
AbortBranchStep(t) ==
    /\ io[t].pc = "aborted_set"
    /\ io'[t].pc # "aborted_set"

\* the statements of the abort branch
AbortBranchPcs == {"aborted_lock", "aborted_set"}

\* C5: a scan that finds the abort flag set at its test ends on its abort
\* branch: from the test to its return it leaves lastCompleteScanStats as it
\* was, emits nothing, arms no timer and queues nothing, and at its return
\* currentScanStepStats is cleared and the state is NotScheduled.
C5_AbortedScanDiscarded ==
    [][\A t \in ThreadIds :
          /\ (io[t].pc = "analyze" /\ abortScanFlag /\ io'[t] # io[t]) =>
                io'[t].pc \in AbortBranchPcs
          /\ (io[t].pc \in AbortBranchPcs /\ io'[t] # io[t]) =>
                /\ lastCompleteScanStats' = lastCompleteScanStats
                /\ events' = << >>
                /\ timerWaits' = timerWaits
                /\ ioQueue' = ioQueue
                /\ nextScheduledScan' = nextScheduledScan
                /\ io'[t].pc \in AbortBranchPcs \cup {"idle"}
          /\ AbortBranchStep(t) =>
                /\ currentScanStepStats' = "none"
                /\ curState' = "NotScheduled"
                /\ io'[t] = IdleThread]_vars

\* a scan was cut short after an earlier one had completed: the abort is
\* still waiting for the io thread, the last complete statistics are kept
C5_Witness ==
    /\ cutShort
    /\ abortScanFlag
    /\ curState = "NotScheduled"
    /\ lastCompleteScanStats # 0
    /\ currentScanStepStats = "none"
    /\ \E c \in Callers : caller[c].pc = "abort_join" /\ caller[c].scanEnd = "aborted"

\* the step in which thread t ends a scan that was not aborted
CompletionStep(t) ==
    /\ io[t].pc = "complete_emit"
    /\ io'[t].pc # "complete_emit"

\* C6 (as claimed): a scan that completes without abort has published its
\* statistics as the last complete ones and has left InProgress: when its
\* scheduleNextScan() returns the state is Scheduled with a valid next time
\* for the periods Hourly..Monthly, NotScheduled with no timer armed for
\* Never.
C6_CompletionReschedules ==
    [][\A t \in ThreadIds :
          (io[t].pc = "sched_emit" /\ io[t].kind = "scan" /\ io'[t] # io[t]) =>
              /\ lastCompleteScanStats = io[t].stats
              /\ IF settings.updatePeriod = "Never"
                 THEN /\ curState = "NotScheduled"
                      /\ nextScheduledScan = NullWDateTime
                      /\ timerWaits = << >>
                 ELSE /\ curState = "Scheduled"
                      /\ nextScheduledScan.valid]_vars

\* the step in which thread t enters the process() of a step
ProcessBegins(t) ==
    /\ io[t].pc = "notify_emit"
    /\ io[t].from = "begin"
    /\ io'[t].pc = "process"

\* C7 (as claimed): once stop() has returned, no step of a scan is run until
\* start() is called, whatever else is called in between.
C7_NoStepAfterStop ==
    [][stopped => \A t \in ThreadIds : ~ProcessBegins(t)]_vars

\* C8 (as claimed): the scheduling handler that start() posted, run while no
\* stop() or abortScan() is under way, goes on to scheduleNextScan().
C8_StartArmsScheduler ==
    [][\A t \in ThreadIds :
          ( /\ io[t].pc = "idle"
            /\ Len(ioQueue) > 0
            /\ Head(ioQueue) = PostedNext
            /\ io'[t] # io[t] \/ ioQueue' = Tail(ioQueue)
            /\ io'[t].pc # "exited"
            /\ controlMutex = NoOwner /\ controlMutex' = NoOwner )
          => io'[t].pc = "sched"]_vars

\* the wait scheduleNextScan() leaves pending for a date-time
ScheduledWait(at) == TimerWait(FALSE, at)

\* thread t, running the handler of a further start(), calls
\* scheduleNextScan() over the schedule an earlier handler left: the status
\* says Scheduled for a time still ahead, and the store holds the settings
\* that are cached
FurtherStart(t) ==
    /\ io[t].kind = "next"
    /\ io[t].pc = "sched"
    /\ io'[t].pc # "sched"
    /\ curState = "Scheduled"
    /\ nextScheduledScan.valid
    /\ Later(dateNow, nextScheduledScan)
    /\ settings' = settings

\* thread t, having computed the next time that the status already has,
\* goes on in scheduleNextScan()
FurtherStartGoesOn(t) ==
    /\ io[t].kind = "next"
    /\ io[t].pc \in {"sched_lock", "sched_set", "sched_next", "sched_emit"}
    /\ io'[t] # io[t]
    /\ curState = "Scheduled"
    /\ io[t].next = nextScheduledScan

\* the status is left as it is
StatusKept ==
    /\ curState' = curState
    /\ nextScheduledScan' = nextScheduledScan
    /\ lastCompleteScanStats' = lastCompleteScanStats
    /\ currentScanStepStats' = currentScanStepStats

\* the wait handlers in the queue that start a scan
ScanCbs(queue) == {i \in 1..Len(queue) : queue[i].kind = "timer" /\ ~queue[i].ec}

\* at most one wait is ever pending, and an expiry queues one scan
OneWaitOneScan ==
    /\ [](Len(timerWaits) <= 1)
    /\ [][Cardinality(ScanCbs(ioQueue')) > Cardinality(ScanCbs(ioQueue)) =>
            /\ Cardinality(ScanCbs(ioQueue')) = Cardinality(ScanCbs(ioQueue)) + 1
            /\ Len(timerWaits) = 1
            /\ timerWaits' = << >>]_vars

\* C9 (as claimed): at most one wait is ever pending on the schedule timer,
\* an expiry queues one scan, and the handler of a further start(), run when
\* an earlier one has scheduled the next scan, the time scheduled being
\* still ahead and the settings being the same, computes the next time the
\* status already has and leaves the status as it was, with one wait pending
\* for that time.
C9_StartIdempotent ==
    /\ OneWaitOneScan
    /\ [][\A t \in ThreadIds :
            /\ FurtherStart(t) =>
                  /\ io'[t].next = nextScheduledScan
                  /\ timerWaits' = << ScheduledWait(nextScheduledScan) >>
                  /\ StatusKept
            /\ FurtherStartGoesOn(t) => StatusKept /\ timerWaits' = timerWaits]_vars

\* C9 (amended): the same for the periods Daily, Weekly and Monthly; for
\* Hourly the handler of a further start() computes the time one hour after
\* it runs and leaves one wait pending for that time, so that the next
\* scheduled scan of the status moves with every start().
C9_StartIdempotentButHourly ==
    /\ OneWaitOneScan
    /\ [][\A t \in ThreadIds :
            /\ FurtherStart(t) =>
                  /\ settings.updatePeriod # "Hourly" =>
                        io'[t].next = nextScheduledScan
                  /\ settings.updatePeriod = "Hourly" =>
                        SecondsOf(io'[t].next) = SecondsOf(dateNow) + 3600
                  /\ timerWaits' = << ScheduledWait(io'[t].next) >>
                  /\ StatusKept
            /\ (io[t].kind = "next" /\ io[t].pc = "sched_next" /\ io'[t] # io[t]) =>
                  nextScheduledScan' = io[t].next
            /\ FurtherStartGoesOn(t) => StatusKept /\ timerWaits' = timerWaits]_vars

\* start() was called twice in a row, its two handlers queued behind the
\* one of the constructor, the period being Hourly: a handler run at 07:00
\* scheduled the scan for 08:00, and the next handler, run at 07:30 with
\* that scan still ahead, has scheduled it for 08:30; the wait it replaced
\* was aborted, one wait is pending for the new time, the status is still
\* Scheduled, and the third handler is still to run
C9_Witness ==
    /\ curState = "Scheduled"
    /\ settings.updatePeriod = "Hourly"
    /\ dateNow = ClockAfterTick(ClockStart)
    /\ nextScheduledScan = WDateTime(0, 30600)
    /\ timerWaits = << ScheduledWait(nextScheduledScan) >>
    /\ ioQueue = << PostedNext, TimerCb(FALSE, TRUE) >>
    /\ ~abortScanFlag
    /\ calls = 2
    /\ \A c \in Callers : caller[c].pc = "idle"
    /\ \A t \in ThreadIds : io[t].pc = "idle"

\* C10 (as claimed): a call of abortScan() returns, whatever the io thread
\* was doing when it was made, and at its return the abort flag is false and
\* the io service is started with its thread running.
C10_AbortScanReturns ==
    /\ \A c \in LiveCallers :
          InAbortScan(c) ~> (caller[c].pc \in {"idle", "post"})
    /\ [][\A c \in LiveCallers :
            (caller[c].pc = "abort_emit" /\ caller'[c].pc # "abort_emit")
                => /\ ~abortScanFlag'
                   /\ ioWork'
                   /\ \A t \in ThreadIds : io'[t].pc # "exited"]_vars

\* the statements of the scan thread that only copy status fields
CopyPcs == {"started_set", "started_next", "notify_set", "publish_set", "sched_set",
            "sched_next", "aborted_set"}

\* C11: the scan thread holds the status mutex only at the statements that
\* copy status fields, never at a step's process(), a settings read, a timer
\* wait or an event emission, and a getStatus() call that waits for the mutex
\* returns although the scan and its step need never finish.
C11_GetStatusNeverBlocks ==
    /\ [](statusWriter = "scan" => \E t \in ThreadIds : io[t].pc \in CopyPcs)
    /\ [](\A t \in ThreadIds : io[t].pc \in CopyPcs => statusWriter = "scan")
    /\ \A r \in LiveReaders : (reader[r] = "lock") ~> (reader[r] = "idle")

\* getStatus() waits for the mutex while the scan thread, in the middle of a
\* step, copies the step statistics
C11_Witness ==
    /\ \E t \in Scanning : io[t].pc = "notify_set" /\ io[t].from = "callback"
    /\ statusWriter = "scan"
    /\ \E r \in LiveReaders : reader[r] = "lock"
    /\ curState = "InProgress"

\* C12 (as claimed): no statement of a control operation executes while the
\* scan body is between its first and last statement: whenever a scan is in
\* progress, every client thread is outside the control operations.
C12_ControlNeverDuringScan ==
    Scanning # {} => \A c \in Callers : caller[c].pc = "idle"

\* the client threads inside the locked section of stop() or abortScan()
LockedPcs ==
    {"start_io", "stop_cancel", "stop_stop", "stop_join", "abort_cancel",
     "abort_stop", "abort_join", "abort_emit"}
InLockedSection == {c \in Callers : caller[c].pc \in LockedPcs}
\* the statement at which stop() and abortScan() wait for the io threads
JoinPcs == {"stop_join", "abort_join"}

\* C12 (amended): the sections of the control operations under the control
\* mutex exclude each other; stop() and abortScan() do run while the scan
\* body runs, and leave their section only when the scan thread has left the
\* scan body and exited.
C12_ControlSerialised ==
    /\ [](Cardinality(InLockedSection) <= 1)
    /\ [](\A c \in Callers : c \in InLockedSection <=> controlMutex = c)
    /\ [][\A c \in Callers :
            (caller[c].pc \in JoinPcs /\ caller'[c].pc \notin JoinPcs)
                => Scanning = {} /\ AllExited]_vars

\* stop() waits for the scan thread in the middle of a scan while another
\* client thread, inside abortScan(), waits for the control mutex
C12_Witness ==
    /\ caller["main"].pc = "stop_join"
    /\ caller["ui"].pc = "abort_lock"
    /\ caller["ui"].isRunning
    /\ \E t \in Scanning : io[t].pc = "process" /\ io[t].step = 3

\* the dates on which a scan of the period may start
Qualifies(period, date) ==
    CASE period = "Daily" -> TRUE
      [] period = "Weekly" -> DayOfWeek(date) = 1
      [] period = "Monthly" -> DayOfMonth(date) = 1

\* C13: for Daily, Weekly and Monthly the date-time computed is valid, has
\* the start time as its time of day, falls on a day that qualifies for the
\* period, is later than now, and no qualifying day before it has the start
\* time later than now.
C13_NextOccurrence ==
    [][dateSettings.updatePeriod \in {"Daily", "Weekly", "Monthly"} =>
         /\ dateNext'.valid
         /\ dateNext'.time = dateSettings.startTime
         /\ Qualifies(dateSettings.updatePeriod, dateNext'.date)
         /\ Later(dateNow, dateNext')
         /\ \A d \in dateNow.date .. dateNext'.date - 1 :
               ~( /\ Qualifies(dateSettings.updatePeriod, d)
                  /\ Later(dateNow, WDateTime(d, dateSettings.startTime)) )]_vars

\* Weekly at 08:00, computed on Tuesday 2 January at 10:00: Monday 8 January
\* at 08:00
C13_Witness ==
    /\ dateSettings = [updatePeriod |-> "Weekly", startTime |-> 28800]
    /\ dateNow = WDateTime(1, 36000)
    /\ dateNext = WDateTime(7, 28800)
    /\ curState = "Scheduled"

\* C14: for Hourly the date-time computed is valid, exactly 3600 seconds
\* after now, and later than now, at every time of day.
C14_HourlyOneHourLater ==
    [][dateSettings.updatePeriod = "Hourly" =>
         /\ dateNext'.valid
         /\ SecondsOf(dateNext') = SecondsOf(dateNow) + 3600
         /\ Later(dateNow, dateNext')]_vars

\* Hourly, computed at 23:30 on the last day of January: 00:30 on 1 February
C14_Witness ==
    /\ dateSettings.updatePeriod = "Hourly"
    /\ dateNow = WDateTime(30, 84600)
    /\ dateNext = WDateTime(31, 1800)
    /\ DayOfMonth(dateNext.date) = 1

\* C15 (as claimed): when a step's process() raises a failure, the scan ends
\* early with the completion event, the state leaves InProgress, and the
\* next scan is scheduled as the update period says.
C15_StepFailureReported ==
    [][\A t \in ThreadIds :
          (io[t].pc = "process" /\ io'[t].pc = "thrown") =>
              /\ Emitted(events', "scanComplete")
              /\ curState' # "InProgress"
              /\ settings'.updatePeriod # "Never" => timerWaits' # << >>]_vars

\* the client threads whose abortScan() saw the scan in progress that has not
\* ended yet: each emits scanAborted when its abortScan() returns
Watching == {c \in Callers : /\ InAbortScan(c)
                             /\ caller[c].isRunning
                             /\ caller[c].scanEnd = "none"}

\* C16 (as claimed): a scan that was started gets exactly one terminal event:
\* when it ends by completion it emits scanComplete and no abortScan() is left
\* that will emit scanAborted for it; when it ends on its abort branch it
\* emits no scanComplete and exactly one abortScan() will emit scanAborted.
C16_OneTerminalEvent ==
    [][\A t \in ThreadIds :
          /\ CompletionStep(t) =>
                Emitted(events', "scanComplete") /\ Watching = {}
          /\ AbortBranchStep(t) =>
                ~Emitted(events', "scanComplete") /\ Cardinality(Watching) = 1]_vars

\* C17 (as claimed): but for the first one of a scan, a scanInProgress is
\* emitted at least one second (two half seconds) after the one before it.
C17_InProgressRate ==
    [][\A t \in ThreadIds :
          ( /\ io[t].pc = "notify_emit"
            /\ Emitted(events', "scanInProgress")
            /\ ~(io[t].from = "begin" /\ io[t].step = 1) )
          => sinceLastEmit >= 2]_vars

\* the step in which an io thread runs refreshScanSettings(), in scan() or
\* in scheduleNextScan()
RefreshStepOf(t) ==
    /\ io[t].pc = "refresh" \/ (io[t].pc = "sched" /\ io[t].kind # "imm")
    /\ io'[t].pc # io[t].pc

\* C18: refreshScanSettings() leaves the cached settings and the step objects
\* as they are, building none, when the settings it reads from the store
\* equal the cached ones, and when they differ, in whatever field, it caches
\* what it read and builds all the steps anew from it; the steps are always
\* the ones built from the cached settings.
C18_RefreshFrame ==
    /\ [](scanStepsBuild.from = settings)
    /\ [][\A t \in ThreadIds : RefreshStepOf(t) =>
            IF storedSettings = settings
            THEN /\ settings' = settings
                 /\ scanSteps' = scanSteps
                 /\ scanStepsBuild' = scanStepsBuild
                 /\ ~io'[t].built
            ELSE /\ settings' = storedSettings
                 /\ io'[t].built
                 /\ scanStepsBuild'.from = storedSettings
                 /\ scanSteps' = PipelineOrder]_vars

\* scan() has refreshed the settings, the store holding other extra tags
\* than the cached copy and nothing else that differs: the steps in use are
\* not the ones built before
C18_Witness ==
    /\ \E t \in Scanning : io[t].pc = "notify_lock" /\ io[t].step = 1 /\ io[t].built
    /\ settings = [BaseSettings EXCEPT !.extraTags = << "MOOD" >>]
    /\ scanStepsBuild.from = settings

\* the sessions that hold a transaction of the kind
Holding(kind) == {s \in Sessions : \E i \in 1..Len(txOpen[s]) : txOpen[s][i] = kind}

\* C19 (as claimed): while a session holds a write transaction, no other
\* session holds a transaction, read or write.
C19_WriteExcludesAll ==
    \A s \in Holding("write") :
        \A o \in Sessions \ {s} : txOpen[o] = << >>

\* an existing track is linked to the artist / has the release
ArtistReferenced(a) ==
    \E l \in db.track_artist_link :
        l.artist_id = a /\ \E t \in db.track : t.id = l.track_id
ReleaseReferenced(r) == \E t \in db.track : t.release_id = r

\* C20: Artist::findOrphanIds returns an artist id (once) if and only if no
\* link joins the artist to an existing track, Release::findOrphanIds a
\* release id (once) if and only if no track has the release: what a live
\* track references is never reported.
C20_OrphansExactly ==
    /\ \A a \in DOMAIN orphanArtists :
          orphanArtists[a] = IF ArtistReferenced(a) THEN 0 ELSE 1
    /\ \A r \in DOMAIN orphanReleases :
          orphanReleases[r] = IF ReleaseReferenced(r) THEN 0 ELSE 1
    /\ DOMAIN orphanArtists \in {{}, db.artist}
    /\ DOMAIN orphanReleases \in {{}, db.release}

\* both queries have run on a catalog with an orphan and a referenced
\* artist, an orphan release and a release with two tracks
C20_Witness ==
    /\ db.artist = {1, 2}
    /\ db.release = {1, 2}
    /\ db.track = {[id |-> 1, release_id |-> 2], [id |-> 2, release_id |-> 2]}
    /\ db.track_artist_link = {[track_id |-> 1, artist_id |-> 1]}
    /\ orphanArtists = << 0, 1 >>
    /\ orphanReleases = << 1, 0 >>

\* the discovered files that fail extraction, and those of them without a Track
Unparsable(fs) == {p \in DiscoverFiles(fs) : ~fs[p].parsable}
NeverExtracted(fs, trs) == {p \in Unparsable(fs) : trs[p] = NoTrack}
\* a scan with force=false is under way, a scan has completed before it and
\* nothing has changed on disk or in the scan settings since that one started
SecondScan ==
    /\ scanContext.active
    /\ ~scanContext.forceRescan
    /\ fsUnchanged
\* the step that publishes the statistics of the scan under way
ScanCompletes ==
    \E t \in ThreadIds : io[t].pc = "publish_set" /\ io'[t].pc # "publish_set"

\* C21 (as stated): a scan with force=false that follows a completed scan,
\* with no change on disk or in the scan settings in between, leaves the
\* catalog unchanged at every step and, when it completes, has recorded
\* every discovered file as a skip and no addition, update or deletion.
C21_SecondScanAllSkips ==
    [][SecondScan =>
        /\ tracks' = tracks
        /\ ScanCompletes =>
              /\ scanContext.stats.skips = Cardinality(DiscoverFiles(fsFiles))
              /\ scanContext.stats.additions = 0
              /\ scanContext.stats.updates = 0
              /\ scanContext.stats.deletions = 0]_vars

\* C21 (amended): such a second scan leaves the catalog unchanged at every
\* step and, when it completes, has recorded no addition, update or
\* deletion; every discovered file is recorded as a skip or as an error, the
\* errors being files whose extraction fails, among them every such file
\* that has no Track.
C21_SecondScanChangesNothing ==
    [][SecondScan =>
        /\ tracks' = tracks
        /\ ScanCompletes =>
              /\ scanContext.stats.additions = 0
              /\ scanContext.stats.updates = 0
              /\ scanContext.stats.deletions = 0
              /\ scanContext.stats.skips + scanContext.stats.errors
                    = Cardinality(DiscoverFiles(fsFiles))
              /\ scanContext.stats.errors <= Cardinality(Unparsable(fsFiles))
              /\ scanContext.stats.errors >= Cardinality(NeverExtracted(fsFiles, tracks))]_vars

\* a second scan with force=false, nothing having changed, is about to
\* publish its statistics: it skipped a file and recorded an error for
\* another
C21_Witness ==
    /\ SecondScan
    /\ \E t \in ThreadIds : io[t].pc = "publish_set"
    /\ scanContext.stats.skips > 0
    /\ scanContext.stats.errors > 0

\* C22: whenever getStreamParameters selects transcoding, the output bitrate
\* is strictly positive; it is the user's default transcoding bitrate when
\* maxBitRate is 0 (no limit), and it does not exceed maxBitRate when
\* maxBitRate is not 0.
C22_BitrateWithinLimit ==
    streamParameters.transcoding =>
        /\ streamParameters.bitrate > 0
        /\ streamRequest.maxBitRate = 0 =>
              streamParameters.bitrate = streamRequest.defaultBitrate
        /\ streamRequest.maxBitRate # 0 =>
              streamParameters.bitrate <= streamRequest.maxBitRate * 1000

\* where a forced scan is carried on its way from the request to scan()
ForcedWaits(waits) == {i \in 1..Len(waits) : waits[i].force}
ForcedScans(threads) == {t \in ThreadIds : threads[t].kind = "scan" /\ threads[t].force}
ForcedHandlers(threads) == {t \in ThreadIds : threads[t].kind = "imm" /\ threads[t].force}
Queued(queue, h) == Cardinality({i \in 1..Len(queue) : queue[i] = h})

\* C23: a wait armed by scheduleNextScan (one with a date-time) never
\* carries force = true, and a scan starts with forceRescan = true only from
\* the wait handler of a wait armed by scheduleScan(true) with a null
\* date-time, which only the handler posted by requestImmediateScan(true)
\* arms.
C23_ForceOnlyFromImmediateScan ==
    [][/\ \A i \in ForcedWaits(timerWaits') : timerWaits'[i].at = NullWDateTime
       /\ ForcedScans(io') \ ForcedScans(io) # {} =>
             ioQueue # << >> /\ Head(ioQueue) = TimerCb(TRUE, FALSE)
       /\ Queued(ioQueue', TimerCb(TRUE, FALSE)) > Queued(ioQueue, TimerCb(TRUE, FALSE)) =>
             timerWaits # << >> /\ Head(timerWaits) = TimerWait(TRUE, NullWDateTime)
       /\ (ForcedWaits(timerWaits') # {} /\ timerWaits' # timerWaits) =>
             \E t \in ForcedHandlers(io) : io[t].pc = "sched"
       /\ ForcedHandlers(io') \ ForcedHandlers(io) # {} =>
             ioQueue # << >> /\ Head(ioQueue) = PostedScan(TRUE)
       /\ Queued(ioQueue', PostedScan(TRUE)) > Queued(ioQueue, PostedScan(TRUE)) =>
             \E c \in Callers : caller[c].pc = "post" /\ caller[c].post = PostedScan(TRUE)
       /\ \A c \in Callers :
             (caller'[c].post = PostedScan(TRUE) /\ caller[c].post # PostedScan(TRUE)) =>
                 caller[c].pc = "abort_emit"]_vars

\* a scan runs with forceRescan = true
C23_Witness == \E t \in Scanning : io[t].pc = "process" /\ io[t].force

\* requestReload() is about to post its handler and return; the handler has
\* run scheduleNextScan(); the client has called a further operation
ReloadReturns == caller["ui"].pc = "post" /\ caller["ui"].post = PostedNext
Rescheduled ==
    /\ Emitted(events, "scanScheduled")
    /\ curState = IF settings.updatePeriod = "Never" THEN "NotScheduled" ELSE "Scheduled"
    /\ nextScheduledScan.valid <=> settings.updatePeriod # "Never"
FurtherOperation == caller["ui"].pc \notin {"idle", "post"}

\* C24: once requestReload() has returned, unless a further control
\* operation is called, the settings are read again and the schedule is
\* evaluated again (Scheduled with the next time of the settings read, or
\* NotScheduled for Never, and scanScheduled emitted); and a scan that was in
\* progress when requestReload() was called has not completed normally.
C24_ReloadReschedules ==
    /\ ReloadReturns ~> (Rescheduled \/ FurtherOperation)
    /\ [][( /\ caller["ui"].pc = "abort_emit"
            /\ caller'["ui"].pc = "post"
            /\ caller'["ui"].post = PostedNext
            /\ caller["ui"].isRunning )
          => caller["ui"].scanEnd # "complete"]_vars

\* a wait is pending on the schedule timer for the next scheduled time, or
\* has just expired with its handler about to start the scan, or the scan
\* has started and is about to set InProgress
TimerPendingFor(at) ==
    \/ \E i \in 1..Len(timerWaits) : timerWaits[i].at = at
    \/ \E i \in 1..Len(ioQueue) : ioQueue[i].kind = "timer" /\ ~ioQueue[i].ec
    \/ \E t \in Scanning : io[t].pc \in {"started_lock", "started_set"}

\* C25 (as claimed): whenever the status (as getStatus() can copy it, the
\* status mutex not being held for writing) says Scheduled and no control
\* operation is under way, the schedule timer is pending for the next
\* scheduled time of the status (or has expired with the scan about to
\* start).
C25_ScheduledMeansTimerPending ==
    ( /\ curState = "Scheduled"
      /\ statusWriter = NoOwner
      /\ \A c \in Callers : caller[c].pc = "idle" )
        => TimerPendingFor(nextScheduledScan)

\* C26: the status a thread copies in getStatus() has state Scheduled
\* exactly when its next scheduled scan is a valid date-time; with state
\* InProgress or NotScheduled the next scheduled scan is null.
C26_SnapshotConsistent ==
    \A r \in Readers :
        reader[r] = "copy" =>
            /\ curState = "Scheduled" <=> nextScheduledScan.valid
            /\ curState \in {"InProgress", "NotScheduled"} => nextScheduledScan = NullWDateTime

\* getStatus() copies the status while the scan thread waits for the status
\* mutex at the start of a scan that a schedule started: Scheduled with its
\* next time
C26_Witness ==
    \E r \in Readers :
        /\ reader[r] = "copy"
        /\ \E t \in Scanning : io[t].pc = "started_lock"
        /\ curState = "Scheduled"
        /\ nextScheduledScan.valid

\* C27: once the abort flag has been set while a scan is running, the scan
\* does not enter the process() of any further step.
C27_NoStepAfterAbortFlag ==
    [][abortedInScan => \A t \in ThreadIds : ~ProcessBegins(t)]_vars

\* C28: in the status a thread copies in getStatus(), the statistics of the
\* current step are empty whenever the state is Scheduled or NotScheduled.
C28_StepStatsOnlyInProgress ==
    \A r \in Readers :
        (reader[r] = "copy" /\ curState \in {"Scheduled", "NotScheduled"})
            => currentScanStepStats = "none"

\* getStatus() copies the status after a scan has run its steps, published
\* its statistics and scheduled the next scan
C28_Witness ==
    \E r \in Readers :
        /\ reader[r] = "copy"
        /\ curState = "Scheduled"
        /\ lastCompleteScanStats # 0
        /\ \E t \in Scanning : io[t].pc = "sched_emit"

\* the sessions a Db owns
Owned(d) == {tlsSessions[d][i] : i \in 1..Len(tlsSessions[d])}

\* C29: the session a thread gets from getTLSSession() on a Db is one made
\* for that Db and owned by it; two threads never get the same session; and
\* a thread that calls again on the same Db gets the same session again.
C29_SessionOfTheDb ==
    /\ [](\A t \in DbThreads :
            tlsReturned[t] # NothingReturned =>
                /\ tlsReturned[t].session.db = tlsReturned[t].db
                /\ tlsReturned[t].session \in Owned(tlsReturned[t].db)
                /\ \A u \in DbThreads \ {t} :
                      tlsReturned[u].session # tlsReturned[t].session)
    /\ [][\A t \in DbThreads :
            ( /\ tlsReturned[t] # NothingReturned
              /\ tlsReturned'[t].db = tlsReturned[t].db )
            => tlsReturned'[t].session = tlsReturned[t].session]_vars

\* C30: when the entry at an index other than the current position is
\* removed with its delete button, the position goes down by one exactly
\* when the removed entry came before the current one, and it designates
\* the same entry as before.
C30_DeleteKeepsCurrentTrack ==
    [][\A pos \in 0..(Len(entriesContainer) - 1) :
          ( /\ ClickDelete(pos)
            /\ trackPos # NoTrackPos
            /\ trackPos < Len(entriesContainer)
            /\ pos # trackPos )
          => /\ trackPos' = IF pos < trackPos THEN trackPos - 1 ELSE trackPos
             /\ entriesContainer'[trackPos' + 1] = entriesContainer[trackPos + 1]]_vars

====

